---- MODULE Spec2Model ----
(***************************************************************************)
(* Model of facturx-mcp: the Factur-X totals calculator, the business-rule *)
(* validator and the XML generator/parser pair.                            *)
(*                                                                         *)
(* Units.  A JavaScript amount is modelled by the integer number of mils   *)
(* (thousandths of a currency unit) of its decimal literal, a rounded      *)
(* amount (Math.round(x * 100) / 100) by its integer number of cents, and  *)
(* a VAT rate by its number of tenths of a percent (20 % is 200).  The     *)
(* arithmetic of the code is IEEE-754 double arithmetic: where a double    *)
(* product lands strictly below a half-cent boundary that the decimal      *)
(* value sits on, Math.round goes one cent lower than the decimal value    *)
(* would; those inputs are listed in the tables below.                     *)
(***************************************************************************)
EXTENDS Integers, Sequences, FiniteSets, TLC

VARIABLES invoice, totals, firstTotals, calls, vatMap, interleaved, frame

VARIABLES args, edits, result

VARIABLES source, sourceEdits, xml, changes, parsed

VARIABLES license, usage, requests, generatedToday

VARIABLES accessToken, tokenExpiry, chorusNow, tokenCalls, grants

VARIABLES cachedResult, cacheExpiry, licenseNow, verdicts

VARIABLES hooks, hookNow

totalsVars ==
    <<invoice, totals, firstTotals, calls, vatMap, interleaved, frame>>

validatorVars == <<args, edits, result>>

codecVars == <<source, sourceEdits, xml, changes, parsed>>

serverVars == <<license, usage, requests, generatedToday>>

coreVars == <<totalsVars, validatorVars, codecVars, serverVars>>

chorusVars == <<accessToken, tokenExpiry, chorusNow, tokenCalls, grants>>

licenseVars == <<cachedResult, cacheExpiry, licenseNow, verdicts>>

webhookVars == <<hooks, hookNow>>

serviceVars == <<chorusVars, licenseVars, webhookVars>>

vars == <<coreVars, serviceVars>>

(***************************************************************************)
(* Bounds of the model.                                                    *)
(***************************************************************************)
MaxLines == 2

MaxCalls == 2

MaxEdits == 2

MaxRequests == 2

MaxTokenCalls == 3

MaxClock == 50

MaxVerdicts == 2

MaxMinutes == 70

MaxHooks == 1

MaxSeconds == 1300

(***************************************************************************)
(* JavaScript arithmetic.                                                  *)
(***************************************************************************)
Abs(n) == IF n < 0 THEN -n ELSE n

\* Math.round of the exact quotient n / d (d > 0): the nearest integer, a
\* tie going towards +Infinity (Math.round(2.5) = 3, Math.round(-2.5) = -2).
JsRound(n, d) == (2 * n + d) \div (2 * d)

\* Amounts (mils) x whose double product x * 100 lands strictly below the
\* half-cent boundary the decimal value lies on (1.005 * 100 is
\* 100.49999999999999 in double arithmetic).
Times100BelowHalf == {1005}

\* Math.round(x * 100) for the amount of x mils: the rounded amount in cents.
RoundAmount(x) ==
    JsRound(x, 10) - (IF x \in Times100BelowHalf THEN 1 ELSE 0)

\* Pairs <<taxable amount (cents), rate (tenths of a percent)>> for which the
\* double expression taxableAmount * rate / 100 * 100 lands strictly below
\* the half-cent boundary the decimal value lies on (10.15 * 10 / 100 * 100
\* is 101.49999999999999).
TaxProductBelowHalf == {<<1015, 100>>, <<151015, 100>>, <<153045, 100>>}

\* Math.round(vat.taxableAmount * vat.rate / 100 * 100), in cents.
TaxAmount(taxableAmount, rate) ==
    JsRound(taxableAmount * rate, 1000)
      - (IF <<taxableAmount, rate>> \in TaxProductBelowHalf THEN 1 ELSE 0)

\* Math.round(x * 100) of an amount x that is a sum of rounded amounts: the
\* sum carries a rounding error far below half a cent, so the result is
\* the exact number of cents.
RoundCents(cents) == JsRound(100 * cents, 100)

(***************************************************************************)
(* calculateTotals (generator.ts).  vatMap is the Map of the call: a       *)
(* sequence of entries in insertion order, as a JavaScript Map iterates.   *)
(***************************************************************************)
\* Mutant of VatKey: the groups are keyed by the rate alone.
VatKey_RateOnly(line) == <<line.vatRate>>

\* The template-string key `${line.vatCategory}-${line.vatRate}`; over the
\* category codes of VatCategoryCode two keys are equal exactly when both
\* parts are.
VatKey(line) == <<line.vatCategory, line.vatRate>>

MapHas(map, key) == \E i \in 1..Len(map) : map[i].key = key

MapIndex(map, key) == CHOOSE i \in 1..Len(map) : map[i].key = key

\* Mutant of NewVatMap: one Map shared by all calls (a module-level Map).
NewVatMap_Shared == vatMap

\* new Map<string, VatSummary>() at the start of each call.
NewVatMap == <<>>

\* Mutant of AddLine: the group's basis is assigned, not added to.
AddLine_Assigns(acc, line) ==
    LET lineTotal == RoundAmount(line.totalAmount)
        key       == VatKey(line)
        withKey   == IF MapHas(acc.vatMap, key)
                     THEN acc.vatMap
                     ELSE Append(acc.vatMap,
                                 [key           |-> key,
                                  categoryCode  |-> line.vatCategory,
                                  rate          |-> line.vatRate,
                                  taxableAmount |-> 0,
                                  taxAmount     |-> 0])
        i         == MapIndex(withKey, key)
    IN  [vatMap |-> [withKey EXCEPT ![i].taxableAmount = lineTotal],
         lineTotalAmount |-> acc.lineTotalAmount + lineTotal]

\* One iteration of the loop over invoice.lines.
AddLine(acc, line) ==
    LET lineTotal == RoundAmount(line.totalAmount)
        key       == VatKey(line)
        withKey   == IF MapHas(acc.vatMap, key)
                     THEN acc.vatMap
                     ELSE Append(acc.vatMap,
                                 [key           |-> key,
                                  categoryCode  |-> line.vatCategory,
                                  rate          |-> line.vatRate,
                                  taxableAmount |-> 0,
                                  taxAmount     |-> 0])
        i         == MapIndex(withKey, key)
    IN  [vatMap |-> [withKey EXCEPT ![i].taxableAmount = @ + lineTotal],
         lineTotalAmount |-> acc.lineTotalAmount + lineTotal]

RECURSIVE AccumulateLines(_, _)
AccumulateLines(acc, lines) ==
    IF lines = <<>> THEN acc
    ELSE AccumulateLines(AddLine(acc, Head(lines)), Tail(lines))

\* The second loop: round each group's basis, then compute its tax from
\* the rounded basis.
FinishVat(vat) ==
    LET taxableAmount == RoundCents(vat.taxableAmount)
    IN  [vat EXCEPT !.taxableAmount = taxableAmount,
                    !.taxAmount = TaxAmount(taxableAmount, vat.rate)]

FinishVatMap(map) == [i \in 1..Len(map) |-> FinishVat(map[i])]

RECURSIVE TaxTotal(_)
TaxTotal(map) ==
    IF map = <<>> THEN 0 ELSE Head(map).taxAmount + TaxTotal(Tail(map))

\* Mutant of GrandTotal: the tax total is left out of the grand total.
GrandTotal_WithoutTax(lineTotalAmount, taxTotal) == RoundCents(lineTotalAmount)

GrandTotal(lineTotalAmount, taxTotal) == RoundCents(lineTotalAmount + taxTotal)

VatSummaryOf(vat) ==
    [categoryCode  |-> vat.categoryCode,
     rate          |-> vat.rate,
     taxableAmount |-> vat.taxableAmount,
     taxAmount     |-> vat.taxAmount]

\* Both loops of the call: the accumulator after the loop over the lines,
\* its Map finished by the loop over vatMap.values().
RunLoops(inv) ==
    LET acc == AccumulateLines([vatMap |-> NewVatMap, lineTotalAmount |-> 0],
                               inv.lines)
    IN  [acc EXCEPT !.vatMap = FinishVatMap(acc.vatMap)]

\* The statements after the two loops: from the Map finished and the sum
\* of the rounded line totals to the object returned.
TotalsOf(acc) ==
    LET taxTotal        == TaxTotal(acc.vatMap)
        lineTotalAmount == RoundCents(acc.lineTotalAmount)
        grandTotal      == GrandTotal(lineTotalAmount, taxTotal)
    IN  [lineTotalAmount     |-> lineTotalAmount,
         taxBasisTotalAmount |-> lineTotalAmount,
         taxTotalAmount      |-> RoundCents(taxTotal),
         grandTotalAmount    |-> grandTotal,
         duePayableAmount    |-> grandTotal,
         vatSummaries        |-> [i \in 1..Len(acc.vatMap) |->
                                     VatSummaryOf(acc.vatMap[i])]]

\* The value of one call on inv, as the other components use it.
calculateTotals(inv) == TotalsOf(RunLoops(inv))

(***************************************************************************)
(* The calculator as a state machine: a caller holds one invoice object    *)
(* and calls calculateTotals on it, other callers call it on theirs in     *)
(* between (facturx_generate, facturx_parse, facturx_compute_totals).  A   *)
(* call runs statement by statement: the allocation of its Map, one        *)
(* iteration of the loop over the lines at a time, then the second loop    *)
(* and the return; the calls are synchronous, so one runs at a time.       *)
(*   invoice      the caller's invoice object (its lines), which a call on *)
(*                it receives by reference                                 *)
(*   totals       <<result>> of the latest call on it, <<>> before any     *)
(*   firstTotals  <<result>> of the first call on it                       *)
(*   calls        number of calls on it that have returned                 *)
(*   vatMap       the Map object the running call fills, after its return  *)
(*                the Map it has left                                      *)
(*   interleaved  the latest call on it came right after another caller's  *)
(*   frame        <<frame>> of the running or latest call, <<>> before     *)
(*                any: whether its argument is the caller's invoice (own), *)
(*                the other caller's invoice if not (other), the number of *)
(*                lines its loop has done (k), its local lineTotalAmount,  *)
(*                and whether it has returned                              *)
(***************************************************************************)
TotalAmounts == {1500000, 33330, 10150, 1005, 125, -125}

VatRates == {0, 100, 200}

VatCategories == {"S", "E"}

TotalsLines ==
    [totalAmount : TotalAmounts, vatRate : VatRates, vatCategory : VatCategories]

LineSeqs(S, n) == UNION {[1..k -> S] : k \in 1..n}

\* Invoices of the callers in between.
OtherInvoices ==
    {[lines |-> <<[totalAmount |-> 10150, vatRate |-> 100, vatCategory |-> "S"]>>],
     [lines |-> <<[totalAmount |-> 125, vatRate |-> 200, vatCategory |-> "E"],
                  [totalAmount |-> 33330, vatRate |-> 0, vatCategory |-> "S"]>>]}

InitTotals ==
    /\ invoice \in {[lines |-> ls] : ls \in LineSeqs(TotalsLines, MaxLines)}
    /\ totals = <<>>
    /\ firstTotals = <<>>
    /\ calls = 0
    /\ vatMap = <<>>
    /\ interleaved = FALSE
    /\ frame = <<>>

NewFrame(own, other) ==
    [own |-> own, other |-> other, k |-> 0, lineTotalAmount |-> 0,
     returned |-> FALSE]

Running == frame # <<>> /\ ~frame[1].returned

\* The invoice the running call was passed.
Argument == IF frame[1].own THEN invoice ELSE frame[1].other

\* calculateTotals(invoice) is entered: const vatMap = new Map(), let
\* lineTotalAmount = 0.
CalculateTotalsCall ==
    /\ ~Running
    /\ calls < MaxCalls
    /\ frame' = <<NewFrame(TRUE, [lines |-> <<>>])>>
    /\ vatMap' = NewVatMap
    /\ interleaved' = (calls >= 1 /\ ~frame[1].own)
    /\ UNCHANGED <<invoice, totals, firstTotals, calls>>
    /\ UNCHANGED <<validatorVars, codecVars, serverVars, serviceVars>>

\* Another caller enters calculateTotals with its invoice.
CalculateTotalsOther(other) ==
    /\ ~Running
    /\ frame' = <<NewFrame(FALSE, other)>>
    /\ vatMap' = NewVatMap
    /\ UNCHANGED <<invoice, totals, firstTotals, calls, interleaved>>
    /\ UNCHANGED <<validatorVars, codecVars, serverVars, serviceVars>>

\* One iteration of for (const line of invoice.lines): the line is read,
\* the Map of the call and its lineTotalAmount are written.
LineIteration ==
    /\ Running
    /\ frame[1].k < Len(Argument.lines)
    /\ LET acc == AddLine([vatMap          |-> vatMap,
                           lineTotalAmount |-> frame[1].lineTotalAmount],
                          Argument.lines[frame[1].k + 1])
       IN  /\ vatMap' = acc.vatMap
           /\ frame' = <<[frame[1] EXCEPT
                            !.k = @ + 1,
                            !.lineTotalAmount = acc.lineTotalAmount]>>
    /\ UNCHANGED <<invoice, totals, firstTotals, calls, interleaved>>
    /\ UNCHANGED <<validatorVars, codecVars, serverVars, serviceVars>>

\* The loop over vatMap.values(), the totals and the return.
ReturnTotals ==
    /\ Running
    /\ frame[1].k = Len(Argument.lines)
    /\ vatMap' = FinishVatMap(vatMap)
    /\ frame' = <<[frame[1] EXCEPT !.returned = TRUE]>>
    /\ IF frame[1].own
       THEN /\ totals' =
                 <<TotalsOf([vatMap          |-> vatMap',
                             lineTotalAmount |-> frame[1].lineTotalAmount])>>
            /\ firstTotals' = IF calls = 0 THEN totals' ELSE firstTotals
            /\ calls' = calls + 1
       ELSE UNCHANGED <<totals, firstTotals, calls>>
    /\ UNCHANGED <<invoice, interleaved>>
    /\ UNCHANGED <<validatorVars, codecVars, serverVars, serviceVars>>

NextTotals ==
    \/ CalculateTotalsCall
    \/ \E other \in OtherInvoices : CalculateTotalsOther(other)
    \/ LineIteration
    \/ ReturnTotals

(***************************************************************************)
(* JavaScript values of the validator's input.  An object is a record that *)
(* has exactly the properties present; a missing property reads as         *)
(* undefined.  null is the record NullValue.  A string is a string.  A     *)
(* number is a record [kind |-> "finite", v |-> n], or of kind "NaN",      *)
(* "Infinity" or "-Infinity" (v = 0); a quantity counts units, a price or  *)
(* an amount counts mils.  Accents of the messages are dropped.            *)
(***************************************************************************)
Has(o, f) == f \in DOMAIN o

Remove(o, f) == [g \in DOMAIN o \ {f} |-> o[g]]

Put(o, f, v) == [g \in DOMAIN o \cup {f} |-> IF g = f THEN v ELSE o[g]]

NullValue == [null |-> TRUE]

IsNull(x) == Has(x, "null")

Finite(n) == [kind |-> "finite", v |-> n]

NaN == [kind |-> "NaN", v |-> 0]

PlusInfinity == [kind |-> "Infinity", v |-> 0]

MinusInfinity == [kind |-> "-Infinity", v |-> 0]

\* typeof x === 'number'
TypeofNumber(x) == Has(x, "kind")

\* isNaN(x) of a number
IsNaN(x) == x.kind = "NaN"

\* The numeric value a property reads as in arithmetic (undefined is NaN).
NumberOf(o, f) == IF Has(o, f) /\ TypeofNumber(o[f]) THEN o[f] ELSE NaN

Sign(x) ==
    CASE x.kind = "Infinity"  -> 1
      [] x.kind = "-Infinity" -> -1
      [] x.kind = "finite"    -> IF x.v > 0 THEN 1 ELSE IF x.v < 0 THEN -1 ELSE 0
      [] OTHER                -> 0

\* a * b
Times(a, b) ==
    IF a.kind = "NaN" \/ b.kind = "NaN" THEN NaN
    ELSE IF a.kind = "finite" /\ b.kind = "finite" THEN Finite(a.v * b.v)
    ELSE IF Sign(a) * Sign(b) = 0 THEN NaN
    ELSE IF Sign(a) * Sign(b) > 0 THEN PlusInfinity
    ELSE MinusInfinity

\* a - b
Minus(a, b) ==
    IF a.kind = "NaN" \/ b.kind = "NaN" THEN NaN
    ELSE IF a.kind = "finite" /\ b.kind = "finite" THEN Finite(a.v - b.v)
    ELSE IF a.kind = b.kind THEN NaN
    ELSE IF a.kind = "finite" THEN
         (IF b.kind = "Infinity" THEN MinusInfinity ELSE PlusInfinity)
    ELSE a

\* Math.abs(x)
MathAbs(x) ==
    CASE x.kind = "finite"    -> Finite(Abs(x.v))
      [] x.kind = "-Infinity" -> PlusInfinity
      [] OTHER                -> x

\* Math.round(x * 100) / 100 of an amount in mils, in cents; the amounts
\* passed are whole cents or listed in Times100BelowHalf, so the double
\* product is decided as in RoundAmount.
RoundToCents(x) == IF x.kind = "finite" THEN Finite(RoundAmount(x.v)) ELSE x

(***************************************************************************)
(* Strings: String.prototype.trim, the regular expressions of validator.ts.*)
(***************************************************************************)
Char(s, i) == SubSeq(s, i, i)

DigitChars == {"0", "1", "2", "3", "4", "5", "6", "7", "8", "9"}

UpperChars ==
    {"A", "B", "C", "D", "E", "F", "G", "H", "I", "J", "K", "L", "M",
     "N", "O", "P", "Q", "R", "S", "T", "U", "V", "W", "X", "Y", "Z"}

WhitespaceChars == {" ", "\t"}

RECURSIVE TrimStart(_)
TrimStart(s) ==
    IF Len(s) > 0 /\ Char(s, 1) \in WhitespaceChars
    THEN TrimStart(SubSeq(s, 2, Len(s)))
    ELSE s

RECURSIVE TrimEnd(_)
TrimEnd(s) ==
    IF Len(s) > 0 /\ Char(s, Len(s)) \in WhitespaceChars
    THEN TrimEnd(SubSeq(s, 1, Len(s) - 1))
    ELSE s

\* s.trim()
Trim(s) == TrimEnd(TrimStart(s))

\* s.replace(/\s/g, '')
RECURSIVE StripWhitespace(_)
StripWhitespace(s) ==
    IF Len(s) = 0 THEN s
    ELSE IF Char(s, 1) \in WhitespaceChars
         THEN StripWhitespace(SubSeq(s, 2, Len(s)))
         ELSE Char(s, 1) \o StripWhitespace(SubSeq(s, 2, Len(s)))

\* !o.f?.trim() is false: the property is a string with a non-blank character.
NonBlank(o, f) == Has(o, f) /\ Trim(o[f]) # ""

\* /^\d{4}-\d{2}-\d{2}$/
DATE_RE(s) ==
    /\ Len(s) = 10
    /\ \A i \in {1, 2, 3, 4, 6, 7, 9, 10} : Char(s, i) \in DigitChars
    /\ Char(s, 5) = "-"
    /\ Char(s, 8) = "-"

\* /^[A-Z]{3}$/
CURRENCY_RE(s) == Len(s) = 3 /\ \A i \in 1..3 : Char(s, i) \in UpperChars

\* /^[A-Z]{2}$/
COUNTRY_RE(s) == Len(s) = 2 /\ \A i \in 1..2 : Char(s, i) \in UpperChars

\* /^[A-Z]{2}\d{2}[A-Z0-9]{4,30}$/
IBAN_RE(s) ==
    /\ Len(s) >= 8
    /\ Len(s) <= 34
    /\ \A i \in 1..2 : Char(s, i) \in UpperChars
    /\ \A i \in 3..4 : Char(s, i) \in DigitChars
    /\ \A i \in 5..Len(s) : Char(s, i) \in UpperChars \cup DigitChars

VAT_CATEGORY_CODES == {"S", "Z", "E", "K", "G", "O", "L", "M"}

INVOICE_TYPE_CODES == {"380", "381", "389", "384"}

(***************************************************************************)
(* validateInvoice (validator.ts).  A message is a record with its text;   *)
(* the amount warning also carries the numbers its text prints (cents).    *)
(***************************************************************************)
Msg(text) == [text |-> text]

When(cond, msg) == IF cond THEN <<msg>> ELSE <<>>

\* Object read through optional chaining: o?.f as an object, {} standing
\* for undefined (every further ?. read of it is undefined too).
Opt(o, f) == IF Has(o, f) THEN o[f] ELSE [x \in {} |-> x]

\* A string property that is present and not empty (truthy).
Truthy(o, f) == Has(o, f) /\ o[f] # ""

HeaderErrors(inv) ==
    When(~NonBlank(inv, "number"), Msg("BT-1 : Numero de facture requis"))
    \o When(~(Has(inv, "date") /\ DATE_RE(inv.date)),
            Msg("BT-2 : Date de facture invalide (format attendu : YYYY-MM-DD)"))
    \o When(~(Has(inv, "typeCode") /\ inv.typeCode \in INVOICE_TYPE_CODES),
            Msg("BT-3 : Code type facture invalide (valeurs : 380, 381, 389, 384)"))
    \o When(~(Has(inv, "currency") /\ CURRENCY_RE(inv.currency)),
            Msg("BT-5 : Code devise invalide (format ISO 4217, ex: EUR)"))
    \o When(~Truthy(inv, "profile"),
            Msg("Profil Factur-X requis (MINIMUM, BASIC, EN_16931, EXTENDED)"))
    \o When(Truthy(inv, "dueDate") /\ ~DATE_RE(inv.dueDate),
            Msg("BT-9 : Date d'echeance invalide (format attendu : YYYY-MM-DD)"))
    \o When(Truthy(inv, "deliveryDate") /\ ~DATE_RE(inv.deliveryDate),
            Msg("Date de livraison invalide (format attendu : YYYY-MM-DD)"))

SellerErrors(inv) ==
    LET seller  == Opt(inv, "seller")
        address == Opt(seller, "address")
    IN  When(~NonBlank(seller, "name"), Msg("BT-27 : Nom du vendeur requis"))
        \o When(~NonBlank(address, "street"),
                Msg("BT-35 : Adresse (rue) du vendeur requise"))
        \o When(~NonBlank(address, "city"), Msg("BT-37 : Ville du vendeur requise"))
        \o When(~NonBlank(address, "postalCode"),
                Msg("BT-38 : Code postal du vendeur requis"))
        \o When(~(Has(address, "countryCode") /\ COUNTRY_RE(address.countryCode)),
                Msg("BT-40 : Code pays vendeur invalide (format ISO 3166-1 alpha-2, ex: FR)"))

SellerWarnings(inv) ==
    LET seller == Opt(inv, "seller")
    IN  When(~Truthy(seller, "vatNumber") /\ ~Truthy(seller, "id"),
             Msg("BT-31/BT-29 : Numero de TVA ou identifiant vendeur recommande pour le profil EN 16931"))

BuyerErrors(inv) ==
    LET buyer   == Opt(inv, "buyer")
        address == Opt(buyer, "address")
    IN  When(~NonBlank(buyer, "name"), Msg("BT-44 : Nom de l'acheteur requis"))
        \o When(~(Has(address, "countryCode") /\ COUNTRY_RE(address.countryCode)),
                Msg("BT-57 : Code pays acheteur invalide (format ISO 3166-1 alpha-2, ex: FR)"))

\* `Ligne ${line.id || i + 1}`, i being the index from 0 (k = i + 1).
LineRef(line, k) ==
    "Ligne " \o (IF Truthy(line, "id") THEN line.id ELSE ToString(k))

\* The value lineIds holds for the line: line.id, undefined when missing.
LineIdKey(line) == IF Has(line, "id") THEN <<line.id>> ELSE <<>>

\* Mutant of SeenBefore: lineIds.add(line.id) left out, the set stays empty.
SeenBefore_NothingAdded(lines, k) == FALSE

\* lineIds.has(line.id): the ids of the lines before were added to the set.
SeenBefore(lines, k) ==
    \E j \in 1..(k - 1) : LineIdKey(lines[j]) = LineIdKey(lines[k])

DuplicateIdError(line, k) ==
    Msg(LineRef(line, k) \o " : Identifiant de ligne duplique (BT-126)")

\* typeof x !== 'number' || isNaN(x)
NotANumber(line, f) ==
    ~(Has(line, f) /\ TypeofNumber(line[f])) \/ IsNaN(line[f])

\* line.vatRate < 0
IsNegative(x) == x.kind = "-Infinity" \/ (x.kind = "finite" /\ x.v < 0)

LineErrors(lines, k) ==
    LET line == lines[k]
        ref  == LineRef(line, k)
    IN  When(SeenBefore(lines, k), DuplicateIdError(line, k))
        \o When(~NonBlank(line, "description"),
                Msg(ref \o " : Designation requise (BT-153)"))
        \o When(NotANumber(line, "quantity"),
                Msg(ref \o " : Quantite invalide (BT-129)"))
        \o When(~NonBlank(line, "unitCode"),
                Msg(ref \o " : Code unite requis (BT-130) - ex: C62 (piece), HUR (heure)"))
        \o When(NotANumber(line, "unitPrice"),
                Msg(ref \o " : Prix unitaire invalide (BT-146)"))
        \o When(NotANumber(line, "totalAmount"),
                Msg(ref \o " : Montant total ligne invalide (BT-131)"))
        \o When(NotANumber(line, "vatRate") \/ IsNegative(line.vatRate),
                Msg(ref \o " : Taux TVA invalide (BT-152) - doit etre >= 0"))
        \o When(~(Has(line, "vatCategory") /\ line.vatCategory \in VAT_CATEGORY_CODES),
                Msg(ref \o " : Code categorie TVA invalide (BT-151) - valeurs: S, Z, E, K, G, O"))

\* Pairs <<expected, actual>> (cents) two cents apart whose double
\* difference is above the double 0.02 (150.02 - 150 is
\* 0.020000000000010232).
TwoCentsAboveTolerance == {<<15002, 15000>>}

\* Math.abs(expected - actual) > 0.02, expected and actual in cents.
AboveTolerance(expected, actual) ==
    LET d == Minus(expected, actual)
    IN  CASE d.kind = "NaN"    -> FALSE
          [] d.kind = "finite" -> \/ Abs(d.v) > 2
                                  \/ <<expected.v, actual.v>> \in TwoCentsAboveTolerance
          [] OTHER             -> TRUE

\* Pairs <<quantity, unit price (mils)>> whose double product
\* quantity * unitPrice * 100 lands strictly below the half-cent boundary
\* the decimal value lies on (3 * 1.005 is 3.0149999999999997, times 100
\* is 301.49999999999994).
ProductBelowHalf == {<<1, 1005>>, <<3, 1005>>}

\* Math.round(quantity * unitPrice * 100), in cents.
RoundProduct(quantity, unitPrice) ==
    JsRound(quantity * unitPrice, 10)
      - (IF <<quantity, unitPrice>> \in ProductBelowHalf THEN 1 ELSE 0)

\* expected = Math.round(line.quantity * line.unitPrice * 100) / 100
LineExpected(line) ==
    LET quantity  == NumberOf(line, "quantity")
        unitPrice == NumberOf(line, "unitPrice")
        product   == Times(quantity, unitPrice)
    IN  IF product.kind = "finite"
        THEN Finite(RoundProduct(quantity.v, unitPrice.v))
        ELSE product

\* actual = Math.round(line.totalAmount * 100) / 100
LineActual(line) == RoundToCents(NumberOf(line, "totalAmount"))

\* The text prints actual, expected and Math.abs(expected - actual).toFixed(2).
AmountWarning(line, k) ==
    [text     |-> LineRef(line, k)
                    \o " : Montant total (actual) # quantite x prix unitaire (expected) - ecart",
     actual   |-> LineActual(line),
     expected |-> LineExpected(line),
     ecart    |-> MathAbs(Minus(LineExpected(line), LineActual(line)))]

LineWarnings(lines, k) ==
    When(AboveTolerance(LineExpected(lines[k]), LineActual(lines[k])),
         AmountWarning(lines[k], k))

RECURSIVE AllLineErrors(_, _)
AllLineErrors(lines, k) ==
    IF k > Len(lines) THEN <<>>
    ELSE LineErrors(lines, k) \o AllLineErrors(lines, k + 1)

RECURSIVE AllLineWarnings(_, _)
AllLineWarnings(lines, k) ==
    IF k > Len(lines) THEN <<>>
    ELSE LineWarnings(lines, k) \o AllLineWarnings(lines, k + 1)

\* !invoice.lines?.length
NoLines(inv) == ~Has(inv, "lines") \/ Len(inv.lines) = 0

LinesErrors(inv) ==
    IF NoLines(inv)
    THEN <<Msg("Au moins une ligne de facture est requise")>>
    ELSE AllLineErrors(inv.lines, 1)

LinesWarnings(inv) ==
    IF NoLines(inv) THEN <<>> ELSE AllLineWarnings(inv.lines, 1)

PaymentWarnings(inv) ==
    LET payment == Opt(inv, "payment")
    IN  When(Truthy(payment, "iban") /\ ~IBAN_RE(StripWhitespace(payment.iban)),
             Msg("BT-84 : Format IBAN potentiellement invalide"))

\* The reads that throw a TypeError: line.id of a null entry of the lines.
ValidateThrows(inv) ==
    ~NoLines(inv) /\ \E k \in 1..Len(inv.lines) : IsNull(inv.lines[k])

ValidationErrors(inv) ==
    HeaderErrors(inv) \o SellerErrors(inv) \o BuyerErrors(inv) \o LinesErrors(inv)

ValidationWarnings(inv) ==
    SellerWarnings(inv) \o LinesWarnings(inv) \o PaymentWarnings(inv)

\* Mutant of IsValid: a warning makes the invoice invalid too.
IsValid_NoWarningEither(errors, warnings) == Len(errors) = 0 /\ Len(warnings) = 0

\* valid: errors.length === 0
IsValid(errors, warnings) == Len(errors) = 0

\* The outcome of a call: the value returned, or the exception thrown.
validateInvoice(inv) ==
    IF ValidateThrows(inv)
    THEN [threw |-> "TypeError"]
    ELSE [valid    |-> IsValid(ValidationErrors(inv), ValidationWarnings(inv)),
          errors   |-> ValidationErrors(inv),
          warnings |-> ValidationWarnings(inv)]

(***************************************************************************)
(* The validator as a state machine: a caller builds the argument of the   *)
(* call from a compliant invoice by up to MaxEdits changes (a property set *)
(* to another value or deleted, a line added or replaced by null), then    *)
(* calls validateInvoice.                                                  *)
(*   args    the invoice value passed                                      *)
(*   edits   number of changes made to the compliant invoice               *)
(*   result  <<outcome>> of validateInvoice(args), <<>> before the call    *)
(***************************************************************************)
CompliantLine ==
    [id          |-> "1",
     description |-> "Prestation de conseil",
     quantity    |-> Finite(10),
     unitCode    |-> "HUR",
     unitPrice   |-> Finite(15000),
     totalAmount |-> Finite(150000),
     vatRate     |-> Finite(200),
     vatCategory |-> "S"]

CompliantInvoice ==
    [number   |-> "F-2024-001",
     typeCode |-> "380",
     date     |-> "2024-01-15",
     currency |-> "EUR",
     profile  |-> "EN_16931",
     seller   |-> [name      |-> "ACME SAS",
                   vatNumber |-> "FR12345678901",
                   address   |-> [street     |-> "1 rue de la Paix",
                                  city       |-> "Paris",
                                  postalCode |-> "75001",
                                  countryCode |-> "FR"]],
     buyer    |-> [name    |-> "CLIENT SA",
                   address |-> [street     |-> "2 avenue Foch",
                                city       |-> "Lyon",
                                postalCode |-> "69001",
                                countryCode |-> "FR"]],
     lines    |-> <<CompliantLine>>]

HeaderValues ==
    {<<"number", "">>, <<"number", "  ">>,
     <<"date", "15/01/2024">>,
     <<"typeCode", "381">>, <<"typeCode", "999">>,
     <<"currency", "eur">>,
     <<"profile", "">>, <<"profile", "BASIC_WL">>, <<"profile", "CUSTOM">>,
     <<"dueDate", "2024-02-15">>, <<"dueDate", "15/02/2024">>,
     <<"deliveryDate", "2024-01-10">>, <<"deliveryDate", "2024-1-10">>}

HeaderProperties ==
    {"number", "date", "typeCode", "currency", "profile", "seller", "buyer",
     "lines", "payment"}

PartyValues == {<<"name", "">>, <<"name", " ">>, <<"id", "12345678901234">>}

PartyProperties == {"name", "vatNumber", "address"}

AddressValues ==
    {<<"street", "">>, <<"city", " ">>, <<"postalCode", "">>,
     <<"countryCode", "fr">>, <<"countryCode", "FRA">>}

AddressProperties == {"street", "countryCode"}

PaymentValues ==
    {[meansCode |-> "30"],
     [meansCode |-> "30", iban |-> "FR76 3000 6000 0112 3456 7890 189"],
     [meansCode |-> "58", iban |-> "FR76-3000"]}

LineStringValues ==
    {<<"id", "">>, <<"id", "2">>, <<"description", " ">>, <<"unitCode", "">>,
     <<"vatCategory", "E">>, <<"vatCategory", "X">>}

LineNumberValues ==
    {<<"quantity", Finite(1)>>, <<"quantity", NaN>>, <<"quantity", PlusInfinity>>,
     <<"unitPrice", Finite(150020)>>,
     <<"totalAmount", Finite(151000)>>, <<"totalAmount", Finite(150010)>>,
     <<"totalAmount", NaN>>,
     <<"vatRate", Finite(0)>>, <<"vatRate", Finite(-100)>>, <<"vatRate", NaN>>}

LineProperties == {"id", "description", "quantity", "totalAmount", "vatRate"}

\* The values one change of a property of the object o gives.
EditsOf(o, values, properties) ==
    {Put(o, e[1], e[2]) : e \in values}
      \cup {Remove(o, f) : f \in properties \cap DOMAIN o}

PartyEdits(party) ==
    EditsOf(party, PartyValues, PartyProperties)
      \cup (IF Has(party, "address")
            THEN {Put(party, "address", a) :
                     a \in EditsOf(party.address, AddressValues, AddressProperties)}
            ELSE {})

LineEdits(line) ==
    IF IsNull(line) THEN {}
    ELSE EditsOf(line, LineStringValues \cup LineNumberValues, LineProperties)
           \cup {NullValue}

LinesEdits(lines) ==
    {<<>>}
      \cup (IF Len(lines) < MaxLines
            THEN {Append(lines, CompliantLine),
                  Append(lines, [CompliantLine EXCEPT !.id = "2"])}
            ELSE {})
      \cup UNION {{[lines EXCEPT ![k] = l] : l \in LineEdits(lines[k])} :
                     k \in 1..Len(lines)}

\* The invoices one change away from inv.
OneEdit(inv) ==
    EditsOf(inv, HeaderValues, HeaderProperties)
      \cup {Put(inv, "payment", pay) : pay \in PaymentValues}
      \cup UNION {{Put(inv, who, party) : party \in PartyEdits(inv[who])} :
                     who \in {"seller", "buyer"} \cap DOMAIN inv}
      \cup (IF Has(inv, "lines")
            THEN {Put(inv, "lines", ls) : ls \in LinesEdits(inv.lines)}
            ELSE {})

InitValidator ==
    /\ args = CompliantInvoice
    /\ edits = 0
    /\ result = <<>>

EditInvoice ==
    /\ edits < MaxEdits
    /\ result = <<>>
    /\ args' \in OneEdit(args) \ {args}
    /\ edits' = edits + 1
    /\ UNCHANGED result
    /\ UNCHANGED <<totalsVars, codecVars, serverVars, serviceVars>>

ValidateInvoiceCall ==
    /\ result = <<>>
    /\ result' = <<validateInvoice(args)>>
    /\ UNCHANGED <<args, edits>>
    /\ UNCHANGED <<totalsVars, codecVars, serverVars, serviceVars>>

NextValidator == EditInvoice \/ ValidateInvoiceCall

(***************************************************************************)
(* Number and date texts of the XML document (generator.ts).               *)
(***************************************************************************)
\* Amounts (mils) that lie on a half-cent boundary as decimals and whose
\* double lies strictly below it (1.005 is 1.00499999999999989...), so that
\* toFixed(2) goes one cent lower than the decimal value would.
BelowDecimalHalf == {1005}

TwoDigits(n) == IF n < 10 THEN "0" \o ToString(n) ELSE ToString(n)

\* n.toFixed(2) of the amount of x mils: the nearest number of cents of the
\* magnitude, a tie going to the larger one, printed with two decimals.
fmt(x) ==
    LET mag   == Abs(x)
        cents == (mag + 5) \div 10 - (IF mag \in BelowDecimalHalf THEN 1 ELSE 0)
    IN  (IF x < 0 THEN "-" ELSE "")
          \o ToString(cents \div 100) \o "." \o TwoDigits(cents % 100)

\* String(line.quantity) of a whole number of units.
QuantityText(n) == IF n < 0 THEN "-" \o ToString(-n) ELSE ToString(n)

\* String(line.vatRate) of a rate of r tenths of a percent ("20", "5.5").
RateText(r) ==
    (IF r < 0 THEN "-" ELSE "")
      \o ToString(Abs(r) \div 10)
      \o (IF Abs(r) % 10 = 0 THEN "" ELSE "." \o ToString(Abs(r) % 10))

\* The value of a decimal digit.
DigitValue(c) == CHOOSE d \in 0..9 : ToString(d) = c

\* Length of the longest prefix of s made of digits.
RECURSIVE DigitPrefix(_)
DigitPrefix(s) ==
    IF Len(s) > 0 /\ Char(s, 1) \in DigitChars
    THEN 1 + DigitPrefix(SubSeq(s, 2, Len(s)))
    ELSE 0

\* The number a string of digits denotes ("" is 0).
RECURSIVE DigitsValue(_)
DigitsValue(s) ==
    IF Len(s) = 0 THEN 0
    ELSE 10 * DigitsValue(SubSeq(s, 1, Len(s) - 1)) + DigitValue(Char(s, Len(s)))

\* parseFloat(s), in mils: leading white space, a sign, digits, a point and
\* digits (read to the third decimal); NaN when no digit is found.
parseFloat(text) ==
    LET s        == TrimStart(text)
        negative == Len(s) > 0 /\ Char(s, 1) = "-"
        signed   == Len(s) > 0 /\ Char(s, 1) \in {"-", "+"}
        body     == IF signed THEN SubSeq(s, 2, Len(s)) ELSE s
        n        == DigitPrefix(body)
        rest     == SubSeq(body, n + 1, Len(body))
        point    == Len(rest) > 0 /\ Char(rest, 1) = "."
        decimals == IF point THEN SubSeq(rest, 2, Len(rest)) ELSE ""
        m        == DigitPrefix(decimals)
        three    == SubSeq(SubSeq(decimals, 1, m) \o "000", 1, 3)
        mils     == 1000 * DigitsValue(SubSeq(body, 1, n)) + DigitsValue(three)
    IN  IF n = 0 /\ m = 0 THEN NaN
        ELSE Finite(IF negative THEN -mils ELSE mils)

\* iso.replace(/-/g, '')
RECURSIVE toDate8(_)
toDate8(iso) ==
    IF Len(iso) = 0 THEN iso
    ELSE IF Char(iso, 1) = "-"
         THEN toDate8(SubSeq(iso, 2, Len(iso)))
         ELSE Char(iso, 1) \o toDate8(SubSeq(iso, 2, Len(iso)))

\* s.includes(sub)
Includes(s, sub) ==
    \E i \in 1..(Len(s) - Len(sub) + 1) : SubSeq(s, i, i + Len(sub) - 1) = sub

PROFILE_URNS ==
    [MINIMUM  |-> "urn:factur-x.eu:1p0:minimum",
     BASIC_WL |-> "urn:factur-x.eu:1p0:basicwl",
     BASIC    |-> "urn:factur-x.eu:1p0:basic",
     EN_16931 |-> "urn:cen.eu:en16931:2017#compliant#urn:factur-x.eu:1p0:en16931",
     EXTENDED |-> "urn:cen.eu:en16931:2017#conformant#urn:factur-x.eu:1p0:extended"]

\* PROFILE_URNS is an object literal: a lookup by a name it does not define
\* itself goes on to Object.prototype, whose properties are functions and
\* objects, none of them nullish.  Each is given here by its conversion to
\* a string.
ObjectPrototype ==
    ("constructor" :> "function Object() { [native code] }") @@
    ("toString" :> "function toString() { [native code] }") @@
    ("__proto__" :> "[object Object]")

\* PROFILE_URNS[invoice.profile] ?? PROFILE_URNS.EN_16931, as the text node
\* made of it.
ProfileUrn(profile) ==
    IF profile \in DOMAIN PROFILE_URNS
    THEN PROFILE_URNS[profile]
    ELSE IF profile \in DOMAIN ObjectPrototype
    THEN ObjectPrototype[profile]
    ELSE PROFILE_URNS.EN_16931

(***************************************************************************)
(* The XML document.  A document is modelled by the tree an XML reader     *)
(* makes of it, namespace prefixes removed: an element is a function from  *)
(* the names of its children to their nodes, its text under "#text" and an *)
(* attribute a under "@_a"; a string is a node whose only key is "#text":  *)
(* an attribute value, an element with text and no attribute, an element   *)
(* with no content (the empty string); elements of the same name under one *)
(* parent read as an array (key "#array").  The namespace declarations of *)
(* the root, which no code reads, are left out.                            *)
(***************************************************************************)
NoChildren == [x \in {} |-> x]

Text(s) == "#text" :> s

WithAttribute(node, name, value) == node @@ (("@_" \o name) :> Text(value))

\* .ele(name) ... .up() under a condition
OptChild(present, name, node) == IF present THEN name :> node ELSE NoChildren

\* An element given its children: with none it reads as ''.
Element(children) == IF DOMAIN children = {} THEN Text("") ELSE children

\* The elements a loop adds under one name.
Repeated(name, nodes) ==
    IF Len(nodes) = 0 THEN NoChildren
    ELSE IF Len(nodes) = 1 THEN name :> nodes[1]
    ELSE name :> ("#array" :> nodes)

\* .ele('udt:DateTimeString', { format: '102' }).txt(toDate8(d))
DateTimeString(d) ==
    "DateTimeString" :> WithAttribute(Text(toDate8(d)), "format", "102")

\* The plain numbers of the lines, as calculateTotals reads them.
LineNumbers(line) ==
    [totalAmount |-> line.totalAmount.v,
     vatRate     |-> line.vatRate.v,
     vatCategory |-> line.vatCategory]

InvoiceNumbers(inv) ==
    [lines |-> [k \in 1..Len(inv.lines) |-> LineNumbers(inv.lines[k])]]

LineItem(line) ==
    ("AssociatedDocumentLineDocument" :> ("LineID" :> Text(line.id)))
    @@ ("SpecifiedTradeProduct" :>
          (OptChild(Truthy(line, "productId"), "SellerAssignedID",
                    Text(line.productId))
           @@ OptChild(Truthy(line, "buyerProductId"), "BuyerAssignedID",
                       Text(line.buyerProductId))
           @@ ("Name" :> Text(line.description))
           @@ OptChild(Truthy(line, "note"), "Description", Text(line.note))))
    @@ ("SpecifiedLineTradeAgreement" :>
          ("NetPriceProductTradePrice" :>
             (("ChargeAmount" :> Text(fmt(line.unitPrice.v)))
              @@ ("BasisQuantity" :>
                    WithAttribute(Text("1"), "unitCode", line.unitCode)))))
    @@ ("SpecifiedLineTradeDelivery" :>
          ("BilledQuantity" :>
             WithAttribute(Text(QuantityText(line.quantity.v)),
                           "unitCode", line.unitCode)))
    @@ ("SpecifiedLineTradeSettlement" :>
          (("ApplicableTradeTax" :>
              (("TypeCode" :> Text("VAT"))
               @@ ("CategoryCode" :> Text(line.vatCategory))
               @@ ("RateApplicablePercent" :> Text(RateText(line.vatRate.v)))))
           @@ ("SpecifiedTradeSettlementLineMonetarySummation" :>
                 ("LineTotalAmount" :> Text(fmt(line.totalAmount.v))))))

TradePartyElement(party) ==
    OptChild(Truthy(party, "id"), "ID", Text(party.id))
    @@ ("Name" :> Text(party.name))
    @@ OptChild(Truthy(party, "legalId"), "SpecifiedLegalOrganization",
                "ID" :> Text(party.legalId))
    @@ OptChild(Truthy(party, "vatNumber"), "SpecifiedTaxRegistration",
                "ID" :> WithAttribute(Text(party.vatNumber), "schemeID", "VA"))
    @@ ("PostalTradeAddress" :>
          (("PostcodeCode" :> Text(party.address.postalCode))
           @@ ("LineOne" :> Text(party.address.street))
           @@ ("CityName" :> Text(party.address.city))
           @@ ("CountryID" :> Text(party.address.countryCode))))
    @@ OptChild(Truthy(Opt(party, "contact"), "email"),
                "URIUniversalCommunication",
                "URIID" :> WithAttribute(Text(party.contact.email),
                                         "schemeID", "EM"))

HeaderTradeAgreement(inv) ==
    OptChild(Truthy(inv, "buyerRef"), "BuyerReference", Text(inv.buyerRef))
    @@ ("SellerTradeParty" :> TradePartyElement(inv.seller))
    @@ ("BuyerTradeParty" :> TradePartyElement(inv.buyer))
    @@ OptChild(Truthy(inv, "purchaseOrderRef"), "BuyerOrderReferencedDocument",
                "IssuerAssignedID" :> Text(inv.purchaseOrderRef))
    @@ OptChild(Truthy(inv, "contractRef"), "ContractReferencedDocument",
                "IssuerAssignedID" :> Text(inv.contractRef))

HeaderTradeDelivery(inv) ==
    Element(OptChild(Truthy(inv, "deliveryDate"),
                     "ActualDeliverySupplyChainEvent",
                     "OccurrenceDateTime" :> DateTimeString(inv.deliveryDate)))

PaymentMeans(payment) ==
    ("TypeCode" :> Text(payment.meansCode))
    @@ OptChild(Truthy(payment, "iban"), "PayeePartyCreditorFinancialAccount",
                "IBANID" :> Text(StripWhitespace(payment.iban)))
    @@ OptChild(Truthy(payment, "iban") /\ Truthy(payment, "bic"),
                "PayeeSpecifiedCreditorFinancialInstitution",
                "BICID" :> Text(payment.bic))

TradeTax(vat) ==
    ("CalculatedAmount" :> Text(fmt(10 * vat.taxAmount)))
    @@ ("TypeCode" :> Text("VAT"))
    @@ ("BasisAmount" :> Text(fmt(10 * vat.taxableAmount)))
    @@ ("CategoryCode" :> Text(vat.categoryCode))
    @@ ("RateApplicablePercent" :> Text(RateText(vat.rate)))

PaymentTerms(inv) ==
    OptChild(Truthy(Opt(inv, "payment"), "terms"), "Description",
             Text(inv.payment.terms))
    @@ OptChild(Truthy(inv, "dueDate"), "DueDateDateTime",
                DateTimeString(inv.dueDate))

MonetarySummation(inv, sums) ==
    ("LineTotalAmount" :> Text(fmt(10 * sums.lineTotalAmount)))
    @@ ("TaxBasisTotalAmount" :> Text(fmt(10 * sums.taxBasisTotalAmount)))
    @@ ("TaxTotalAmount" :>
          WithAttribute(Text(fmt(10 * sums.taxTotalAmount)),
                        "currencyID", inv.currency))
    @@ ("GrandTotalAmount" :> Text(fmt(10 * sums.grandTotalAmount)))
    @@ ("DuePayableAmount" :> Text(fmt(10 * sums.duePayableAmount)))

HeaderTradeSettlement(inv, sums) ==
    OptChild(Truthy(Opt(inv, "payment"), "reference"), "PaymentReference",
             Text(inv.payment.reference))
    @@ ("InvoiceCurrencyCode" :> Text(inv.currency))
    @@ OptChild(Has(inv, "payment"), "SpecifiedTradeSettlementPaymentMeans",
                PaymentMeans(inv.payment))
    @@ Repeated("ApplicableTradeTax",
                [i \in 1..Len(sums.vatSummaries) |->
                    TradeTax(sums.vatSummaries[i])])
    @@ OptChild(Truthy(inv, "dueDate") \/ Truthy(Opt(inv, "payment"), "terms"),
                "SpecifiedTradePaymentTerms", PaymentTerms(inv))
    @@ ("SpecifiedTradeSettlementHeaderMonetarySummation" :>
          MonetarySummation(inv, sums))

\* generateFacturX of an invoice that passes validateInvoice with finite
\* numbers.
generateFacturX(inv) ==
    LET sums == calculateTotals(InvoiceNumbers(inv))
    IN  "CrossIndustryInvoice" :>
          (("ExchangedDocumentContext" :>
              ("GuidelineSpecifiedDocumentContextParameter" :>
                 ("ID" :> Text(ProfileUrn(inv.profile)))))
           @@ ("ExchangedDocument" :>
                 (("ID" :> Text(inv.number))
                  @@ ("TypeCode" :> Text(inv.typeCode))
                  @@ ("IssueDateTime" :> DateTimeString(inv.date))
                  @@ OptChild(Truthy(inv, "notes"), "IncludedNote",
                              "Content" :> Text(inv.notes))))
           @@ ("SupplyChainTradeTransaction" :>
                 (Repeated("IncludedSupplyChainTradeLineItem",
                           [k \in 1..Len(inv.lines) |-> LineItem(inv.lines[k])])
                  @@ ("ApplicableHeaderTradeAgreement" :>
                        HeaderTradeAgreement(inv))
                  @@ ("ApplicableHeaderTradeDelivery" :>
                        HeaderTradeDelivery(inv))
                  @@ ("ApplicableHeaderTradeSettlement" :>
                        HeaderTradeSettlement(inv, sums)))))

(***************************************************************************)
(* parseFacturXXml (generator.ts), reading the tree of the document.       *)
(***************************************************************************)
Undefined == "#undefined" :> TRUE

IsUndefined(node) == Has(node, "#undefined")

\* typeof node === 'string'
IsString(node) == DOMAIN node = {"#text"}

\* typeof node === 'object'
IsObject(node) == ~IsUndefined(node) /\ ~IsString(node)

\* node[name], and node?.[name] of an undefined node
Get(node, name) ==
    IF ~IsUndefined(node) /\ ~IsString(node) /\ name \in DOMAIN node
    THEN node[name]
    ELSE Undefined

\* node ?? {}
OrEmpty(node) == IF IsUndefined(node) THEN NoChildren ELSE node

\* The truthiness of a node: undefined and '' are falsy.
TruthyNode(node) ==
    ~IsUndefined(node) /\ ~(IsString(node) /\ node["#text"] = "")

str(node) ==
    IF IsUndefined(node) THEN ""
    ELSE IF Has(node, "#text") THEN node["#text"]
    ELSE ""

\* parseFloat(s) || 0, in mils
FloatOrZero(s) == IF IsNaN(parseFloat(s)) THEN Finite(0) ELSE parseFloat(s)

num(node) == FloatOrZero(str(node))

\* A number read from the document as a count of units (quantities) or of
\* tenths of a percent (rates); the texts the model reads carry no more
\* decimals than that.
InUnits(x) == Finite(x.v \div 1000)

InTenths(x) == Finite(x.v \div 100)

toIsoDate(node) ==
    LET s == str(node)
    IN  IF Len(s) = 8
        THEN SubSeq(s, 1, 4) \o "-" \o SubSeq(s, 5, 6) \o "-" \o SubSeq(s, 7, 8)
        ELSE s

\* s || fallback
OrDefault(s, fallback) == IF s = "" THEN fallback ELSE s

\* A property set to s || undefined: absent when s is ''.
OptField(name, s) == IF s = "" THEN NoChildren ELSE name :> s

parseParty(raw) ==
    LET addr     == OrEmpty(Get(raw, "PostalTradeAddress"))
        taxReg   == Get(raw, "SpecifiedTaxRegistration")
        legalOrg == Get(raw, "SpecifiedLegalOrganization")
    IN  [name    |-> str(Get(raw, "Name")),
         address |-> [street      |-> str(Get(addr, "LineOne")),
                      city        |-> str(Get(addr, "CityName")),
                      postalCode  |-> str(Get(addr, "PostcodeCode")),
                      countryCode |-> str(Get(addr, "CountryID"))]]
        @@ OptField("id", str(Get(raw, "ID")))
        @@ (IF TruthyNode(taxReg)
            THEN OptField("vatNumber", str(Get(taxReg, "ID")))
            ELSE NoChildren)
        @@ (IF TruthyNode(legalOrg)
            THEN OptField("legalId", str(Get(legalOrg, "ID")))
            ELSE NoChildren)

ParseLine(l) ==
    LET lineDoc        == OrEmpty(Get(l, "AssociatedDocumentLineDocument"))
        product        == OrEmpty(Get(l, "SpecifiedTradeProduct"))
        lineAgreement  == OrEmpty(Get(l, "SpecifiedLineTradeAgreement"))
        lineDelivery   == OrEmpty(Get(l, "SpecifiedLineTradeDelivery"))
        lineSettlement == OrEmpty(Get(l, "SpecifiedLineTradeSettlement"))
        price          == OrEmpty(Get(lineAgreement, "NetPriceProductTradePrice"))
        tax            == OrEmpty(Get(lineSettlement, "ApplicableTradeTax"))
        billed         == Get(lineDelivery, "BilledQuantity")
        billedQty      == str(billed)
        billedUnit     == IF IsObject(billed)
                          THEN str(Get(billed, "@_unitCode"))
                          ELSE "C62"
        lineSummation  ==
            OrEmpty(Get(lineSettlement,
                        "SpecifiedTradeSettlementLineMonetarySummation"))
    IN  [id          |-> str(Get(lineDoc, "LineID")),
         description |-> str(Get(product, "Name")),
         quantity    |-> InUnits(FloatOrZero(billedQty)),
         unitCode    |-> OrDefault(billedUnit, "C62"),
         unitPrice   |-> num(Get(price, "ChargeAmount")),
         totalAmount |-> num(Get(lineSummation, "LineTotalAmount")),
         vatRate     |-> InTenths(num(Get(tax, "RateApplicablePercent"))),
         vatCategory |-> OrDefault(str(Get(tax, "CategoryCode")), "S")]
        @@ OptField("productId", str(Get(product, "SellerAssignedID")))
        @@ OptField("note", str(Get(product, "Description")))

\* trx['IncludedSupplyChainTradeLineItem'] ?? [], made an array
RawLines(trx) ==
    LET rawLines == Get(trx, "IncludedSupplyChainTradeLineItem")
    IN  IF IsUndefined(rawLines) THEN <<>>
        ELSE IF Has(rawLines, "#array") THEN rawLines["#array"]
        ELSE <<rawLines>>

\* The chain of includes() tests on the guideline identifier.
\* Mutant of InferProfile: no profile is inferred from an identifier that
\* names none.
InferProfile_WithoutFallback(guidelineId) ==
    IF Includes(guidelineId, "en16931") THEN "EN_16931"
    ELSE IF Includes(guidelineId, "extended") THEN "EXTENDED"
    ELSE IF Includes(guidelineId, "basic") THEN "BASIC"
    ELSE IF Includes(guidelineId, "basicwl") THEN "BASIC_WL"
    ELSE IF Includes(guidelineId, "minimum") THEN "MINIMUM"
    ELSE ""

InferProfile(guidelineId) ==
    IF Includes(guidelineId, "en16931") THEN "EN_16931"
    ELSE IF Includes(guidelineId, "extended") THEN "EXTENDED"
    ELSE IF Includes(guidelineId, "basic") THEN "BASIC"
    ELSE IF Includes(guidelineId, "basicwl") THEN "BASIC_WL"
    ELSE IF Includes(guidelineId, "minimum") THEN "MINIMUM"
    ELSE "EN_16931"

ParsePayment(settlement, paymentMeans, paymentTerms) ==
    LET creditorAccount == Get(paymentMeans, "PayeePartyCreditorFinancialAccount")
    IN  [meansCode |-> OrDefault(str(Get(paymentMeans, "TypeCode")), "30")]
        @@ (IF TruthyNode(creditorAccount)
            THEN OptField("iban", str(Get(creditorAccount, "IBANID")))
            ELSE NoChildren)
        @@ OptField("reference", str(Get(settlement, "PaymentReference")))
        @@ (IF TruthyNode(paymentTerms)
            THEN OptField("terms", str(Get(paymentTerms, "Description")))
            ELSE NoChildren)

\* The invoice returned when no read fails.
ParsedInvoice(root, doc, trx) ==
    LET agreement     == Get(trx, "ApplicableHeaderTradeAgreement")
        delivery      == Get(trx, "ApplicableHeaderTradeDelivery")
        settlement    == Get(trx, "ApplicableHeaderTradeSettlement")
        rawLines      == RawLines(trx)
        paymentMeans  == Get(settlement, "SpecifiedTradeSettlementPaymentMeans")
        paymentTerms  == Get(settlement, "SpecifiedTradePaymentTerms")
        deliveryEvent == Get(Get(delivery, "ActualDeliverySupplyChainEvent"),
                             "OccurrenceDateTime")
        dueDateTime   == Get(Get(paymentTerms, "DueDateDateTime"),
                             "DateTimeString")
        ctx           == Get(root, "ExchangedDocumentContext")
        guidelineId   ==
            str(Get(Get(ctx, "GuidelineSpecifiedDocumentContextParameter"), "ID"))
        note          == Get(doc, "IncludedNote")
        noteText      == IF TruthyNode(note) THEN str(Get(note, "Content")) ELSE ""
    IN  [number   |-> str(Get(doc, "ID")),
         typeCode |-> OrDefault(str(Get(doc, "TypeCode")), "380"),
         date     |-> toIsoDate(Get(Get(doc, "IssueDateTime"), "DateTimeString")),
         currency |-> str(Get(settlement, "InvoiceCurrencyCode")),
         profile  |-> InferProfile(guidelineId),
         seller   |-> parseParty(Get(agreement, "SellerTradeParty")),
         buyer    |-> parseParty(Get(agreement, "BuyerTradeParty")),
         lines    |-> [k \in 1..Len(rawLines) |-> ParseLine(rawLines[k])]]
        @@ (IF TruthyNode(dueDateTime)
            THEN "dueDate" :> toIsoDate(dueDateTime)
            ELSE NoChildren)
        @@ (IF TruthyNode(deliveryEvent)
            THEN "deliveryDate" :> toIsoDate(Get(deliveryEvent, "DateTimeString"))
            ELSE NoChildren)
        @@ (IF TruthyNode(paymentMeans)
            THEN "payment" :> ParsePayment(settlement, paymentMeans, paymentTerms)
            ELSE NoChildren)
        @@ OptField("purchaseOrderRef",
                    str(Get(Get(agreement, "BuyerOrderReferencedDocument"),
                            "IssuerAssignedID")))
        @@ OptField("contractRef",
                    str(Get(Get(agreement, "ContractReferencedDocument"),
                            "IssuerAssignedID")))
        @@ OptField("buyerRef", str(Get(agreement, "BuyerReference")))
        @@ OptField("notes", noteText)

\* The reads of a property of undefined, which throw a TypeError:
\* settlement[...], agreement[...] and raw[...] in parseParty.
ParseThrows(trx) ==
    LET agreement == Get(trx, "ApplicableHeaderTradeAgreement")
    IN  \/ IsUndefined(Get(trx, "ApplicableHeaderTradeSettlement"))
        \/ IsUndefined(agreement)
        \/ IsUndefined(Get(agreement, "SellerTradeParty"))
        \/ IsUndefined(Get(agreement, "BuyerTradeParty"))

\* The XML reader (xmlParser, parseTagValue left at its default): the text
\* of an element that reads as a decimal number becomes that number, which
\* str() turns back into a string: leading zeros and the zeros that end the
\* decimals are gone.  Attribute values stay strings (parseAttributeValue:
\* false).  The texts the model reads are short of the length where a
\* number loses digits.
AllDigits(s) == Len(s) > 0 /\ \A i \in 1..Len(s) : Char(s, i) \in DigitChars

RECURSIVE StripLeadingZeros(_)
StripLeadingZeros(s) ==
    IF Len(s) > 1 /\ Char(s, 1) = "0"
    THEN StripLeadingZeros(SubSeq(s, 2, Len(s)))
    ELSE s

RECURSIVE StripTrailingZeros(_)
StripTrailingZeros(s) ==
    IF Len(s) > 0 /\ Char(s, Len(s)) = "0"
    THEN StripTrailingZeros(SubSeq(s, 1, Len(s) - 1))
    ELSE s

\* String(n) of the number n read from the digits whole '.' decimals.
NumberText(negative, whole, decimals) ==
    LET w    == StripLeadingZeros(whole)
        d    == StripTrailingZeros(decimals)
        text == w \o (IF d = "" THEN "" ELSE "." \o d)
    IN  IF negative /\ text # "0" THEN "-" \o text ELSE text

\* The text an element's text reads back as.
TagValue(s) ==
    LET negative == Len(s) > 0 /\ Char(s, 1) = "-"
        body     == IF negative THEN SubSeq(s, 2, Len(s)) ELSE s
        points   == {i \in 1..Len(body) : Char(body, i) = "."}
    IN  IF AllDigits(body)
        THEN NumberText(negative, body, "")
        ELSE IF Cardinality(points) = 1
        THEN LET p        == CHOOSE i \in points : TRUE
                 whole    == SubSeq(body, 1, p - 1)
                 decimals == SubSeq(body, p + 1, Len(body))
             IN  IF AllDigits(whole) /\ AllDigits(decimals)
                 THEN NumberText(negative, whole, decimals)
                 ELSE s
        ELSE s

\* xmlParser.parse(xmlContent): the tree of the document with the element
\* texts read.
RECURSIVE XmlParse(_)
XmlParse(node) ==
    [k \in DOMAIN node |->
        IF k = "#text" THEN TagValue(node[k])
        ELSE IF Len(k) > 2 /\ SubSeq(k, 1, 2) = "@_" THEN node[k]
        ELSE IF k = "#array" THEN [i \in DOMAIN node[k] |-> XmlParse(node[k][i])]
        ELSE XmlParse(node[k])]

\* Mutant of StructureMissing: only the document section is required.
StructureMissing_DocumentOnly(doc, trx) == ~TruthyNode(doc)

\* !doc || !trx
StructureMissing(doc, trx) == ~TruthyNode(doc) \/ ~TruthyNode(trx)

\* The outcome of a call: the invoice returned, or the exception thrown.
parseFacturXXml(document) ==
    LET root == Get(XmlParse(document), "CrossIndustryInvoice")
        doc  == Get(root, "ExchangedDocument")
        trx  == Get(root, "SupplyChainTradeTransaction")
    IN  IF ~TruthyNode(root)
        THEN [threw   |-> "Error",
              message |-> "Document XML invalide : balise CrossIndustryInvoice introuvable"]
        ELSE IF StructureMissing(doc, trx)
        THEN [threw   |-> "Error",
              message |-> "Structure Factur-X invalide : ExchangedDocument ou SupplyChainTradeTransaction manquant"]
        ELSE IF ParseThrows(trx)
        THEN [threw |-> "TypeError"]
        ELSE ParsedInvoice(root, doc, trx)

(***************************************************************************)
(* The generator and the parser as a state machine: a caller builds an     *)
(* invoice from the compliant invoice by up to MaxEdits changes, has it    *)
(* validated and generated, and the document is parsed back.               *)
(*   source       the invoice value submitted                              *)
(*   sourceEdits  number of changes made to the compliant invoice          *)
(*   xml          <<outcome>> of generateFacturX(source): the document or  *)
(*                the exception thrown; <<>> before                        *)
(*   changes      the elements removed from, or rewritten in, the document *)
(*                before it is parsed (their paths)                        *)
(*   parsed       <<outcome>> of parseFacturXXml(xml[1]), <<>> before      *)
(***************************************************************************)
SourceHeaderValues ==
    {<<"number", "">>,
     <<"profile", "MINIMUM">>, <<"profile", "BASIC_WL">>, <<"profile", "BASIC">>,
     <<"profile", "EXTENDED">>, <<"profile", "CUSTOM">>,
     <<"profile", "constructor">>,
     <<"typeCode", "381">>,
     <<"date", "0999-12-31">>,
     <<"dueDate", "2024-02-15">>, <<"deliveryDate", "2024-01-10">>,
     <<"notes", "Merci de votre confiance">>,
     <<"buyerRef", "SERVICE-42">>,
     <<"purchaseOrderRef", "PO-7">>, <<"contractRef", "CT-9">>}

SourcePaymentValues ==
    {[meansCode |-> "30"],
     [meansCode |-> "30", iban |-> "FR76 3000 6000 0112 3456 7890 189"],
     [meansCode |-> "30", terms |-> "Comptant"],
     [meansCode |-> "58", iban |-> "FR7630006000011234567890189",
      bic |-> "AGRIFRPP", reference |-> "RF18", terms |-> "30 jours"]}

SourcePartyValues ==
    {<<"id", "12345678901234">>, <<"legalId", "RCS 123">>,
     <<"vatNumber", "FR98765432109">>,
     <<"contact", [email |-> "compta@example.org"]>>}

SourceLineValues ==
    {<<"productId", "P-1">>, <<"buyerProductId", "B-1">>,
     <<"note", "Remise incluse">>, <<"unitCode", "C62">>,
     <<"quantity", Finite(3)>>,
     <<"unitPrice", Finite(1005)>>, <<"totalAmount", Finite(125)>>,
     <<"vatRate", Finite(55)>>, <<"vatCategory", "E">>}

SourceLinesEdits(lines) ==
    (IF Len(lines) < MaxLines
     THEN {Append(lines, [CompliantLine EXCEPT !.id = "2"])}
     ELSE {})
      \cup UNION {{[lines EXCEPT ![k] = l] :
                      l \in EditsOf(lines[k], SourceLineValues, {})} :
                     k \in 1..Len(lines)}

\* The invoices one change away from inv.
SourceEdit(inv) ==
    EditsOf(inv, SourceHeaderValues, {})
      \cup {Put(inv, "payment", pay) : pay \in SourcePaymentValues}
      \cup UNION {{Put(inv, who, party) :
                      party \in EditsOf(inv[who], SourcePartyValues, {"vatNumber"})} :
                     who \in {"seller", "buyer"}}
      \cup {Put(inv, "lines", ls) : ls \in SourceLinesEdits(inv.lines)}

InitCodec ==
    /\ source = CompliantInvoice
    /\ sourceEdits = 0
    /\ xml = <<>>
    /\ changes = <<>>
    /\ parsed = <<>>

EditSource ==
    /\ sourceEdits < MaxEdits
    /\ xml = <<>>
    /\ source' \in SourceEdit(source) \ {source}
    /\ sourceEdits' = sourceEdits + 1
    /\ UNCHANGED <<xml, changes, parsed>>
    /\ UNCHANGED <<totalsVars, validatorVars, serverVars, serviceVars>>

\* The invoice passes validateInvoice and is handed to generateFacturX.
\* The outcomes of generateFacturX.  A profileUrn that is not a string is
\* handed to the XML builder, which either converts it to a string or fails
\* on it with a TypeError.
GenerateOutcomes(inv) ==
    IF inv.profile \in DOMAIN ObjectPrototype
    THEN {generateFacturX(inv), [threw |-> "TypeError"]}
    ELSE {generateFacturX(inv)}

GenerateCall ==
    /\ xml = <<>>
    /\ validateInvoice(source).valid
    /\ \E outcome \in GenerateOutcomes(source) : xml' = <<outcome>>
    /\ UNCHANGED <<source, sourceEdits, changes, parsed>>
    /\ UNCHANGED <<totalsVars, validatorVars, serverVars, serviceVars>>

ParseCall ==
    /\ xml # <<>>
    /\ ~Has(xml[1], "threw")
    /\ parsed = <<>>
    /\ parsed' = <<parseFacturXXml(xml[1])>>
    /\ UNCHANGED <<source, sourceEdits, xml, changes>>
    /\ UNCHANGED <<totalsVars, validatorVars, serverVars, serviceVars>>

\* The document handed to the parser need not be the generator's: it may
\* lack elements, or carry another guideline identifier.
ContextPath == <<"CrossIndustryInvoice", "ExchangedDocumentContext">>

GuidelinePath == ContextPath \o <<"GuidelineSpecifiedDocumentContextParameter">>

GuidelineIdPath == GuidelinePath \o <<"ID">>

DocumentPath == <<"CrossIndustryInvoice", "ExchangedDocument">>

TransactionPath == <<"CrossIndustryInvoice", "SupplyChainTradeTransaction">>

AgreementPath == TransactionPath \o <<"ApplicableHeaderTradeAgreement">>

DeliveryPath == TransactionPath \o <<"ApplicableHeaderTradeDelivery">>

SettlementPath == TransactionPath \o <<"ApplicableHeaderTradeSettlement">>

RemovablePaths ==
    {<<"CrossIndustryInvoice">>, ContextPath, GuidelinePath, GuidelineIdPath,
     DocumentPath,
     DocumentPath \o <<"IssueDateTime">>,
     DocumentPath \o <<"IncludedNote">>,
     TransactionPath,
     TransactionPath \o <<"IncludedSupplyChainTradeLineItem">>,
     AgreementPath,
     AgreementPath \o <<"SellerTradeParty">>,
     AgreementPath \o <<"BuyerTradeParty">>,
     AgreementPath \o <<"BuyerOrderReferencedDocument">>,
     DeliveryPath,
     DeliveryPath \o <<"ActualDeliverySupplyChainEvent">>,
     SettlementPath,
     SettlementPath \o <<"SpecifiedTradeSettlementPaymentMeans">>,
     SettlementPath \o <<"SpecifiedTradePaymentTerms">>,
     SettlementPath \o <<"ApplicableTradeTax">>}

GuidelineTexts == {"", "urn:example:invoice:custom", "urn:factur-x.eu:1p0:minimum"}

\* The node at a path of the document, Undefined when there is none.
RECURSIVE NodeAt(_, _)
NodeAt(node, path) ==
    IF Len(path) = 0 THEN node ELSE NodeAt(Get(node, Head(path)), Tail(path))

\* The document without the element at the path; an element left without
\* content reads as the empty string.
RECURSIVE WithoutElement(_, _)
WithoutElement(node, path) ==
    IF Len(path) = 1
    THEN Element(Remove(node, Head(path)))
    ELSE Put(node, Head(path), WithoutElement(node[Head(path)], Tail(path)))

\* The document with the text of the element at the path rewritten.
RECURSIVE WithText(_, _, _)
WithText(node, path, text) ==
    IF Len(path) = 0
    THEN Text(text)
    ELSE Put(node, Head(path), WithText(node[Head(path)], Tail(path), text))

RemoveElement(path) ==
    /\ xml # <<>>
    /\ parsed = <<>>
    /\ sourceEdits + Len(changes) < MaxEdits
    /\ ~IsUndefined(NodeAt(xml[1], path))
    /\ xml' = <<IF Len(path) = 1 THEN NoChildren ELSE WithoutElement(xml[1], path)>>
    /\ changes' = Append(changes, path)
    /\ UNCHANGED <<source, sourceEdits, parsed>>
    /\ UNCHANGED <<totalsVars, validatorVars, serverVars, serviceVars>>

RewriteGuideline(text) ==
    /\ xml # <<>>
    /\ parsed = <<>>
    /\ sourceEdits + Len(changes) < MaxEdits
    /\ ~IsUndefined(NodeAt(xml[1], GuidelineIdPath))
    /\ str(NodeAt(xml[1], GuidelineIdPath)) # text
    /\ xml' = <<WithText(xml[1], GuidelineIdPath, text)>>
    /\ changes' = Append(changes, GuidelineIdPath)
    /\ UNCHANGED <<source, sourceEdits, parsed>>
    /\ UNCHANGED <<totalsVars, validatorVars, serverVars, serviceVars>>

NextCodec ==
    \/ EditSource
    \/ GenerateCall
    \/ \E path \in RemovablePaths : RemoveElement(path)
    \/ \E text \in GuidelineTexts : RewriteGuideline(text)
    \/ ParseCall

(***************************************************************************)
(* The tool server (index.ts, usage.ts): the handler of a tool call runs   *)
(* up to each await, where the handlers of other calls may run.            *)
(*   license   currentLicense.valid, fixed at start-up                     *)
(*   usage     the file usage.json: the {date, count} written at its start *)
(*             and the number of characters left after it (tail) by a      *)
(*             longer text written before; date '' is the file missing or  *)
(*             empty                                                       *)
(*   requests  the tool calls received, each a record:                     *)
(*     tool       name of the tool                                         *)
(*     submitted  the arguments as the caller passed them                  *)
(*     args       the arguments object now (the handler writes into it)    *)
(*     pc         "start", "run" (quota granted), "increment", "write",    *)
(*                "action" (a Pro tool awaiting its action), "done"        *)
(*     validation <<outcome>> of validateInvoice in this call, <<>> before *)
(*     xml        <<document>> generateFacturX returned, <<>> before       *)
(*     data       content read by incrementFreeUsage                       *)
(*     opened     writeFile of the call has opened usage.json, emptying it *)
(*     wrote      writeFile of the call has written its text; at pc        *)
(*                "write" the handler then awaits the promise of writeFile *)
(*     performed  the action of a Pro tool (file read or write, Chorus Pro *)
(*                request) has been started                                *)
(*     response   <<result>> returned to the caller, <<>> before           *)
(*   generatedToday  number of facturx_generate calls that returned XML    *)
(*             today, those before the calls of requests included          *)
(***************************************************************************)
FREE_DAILY_LIMIT == 10

\* today(): the calendar day of the run.
Today == "2024-01-15"

\* usage.json holding the text of {date, count}.
UsageFile(date, count) == [date |-> date, count |-> count, tail |-> 0]

\* usage.json missing, or opened for writing and not yet written.
NoUsageFile == UsageFile("", 0)

UsageAtStart ==
    {NoUsageFile,
     UsageFile("2024-01-14", 10),
     UsageFile(Today, 9),
     UsageFile(Today, 10)}

\* readUsage(): the content parsed, {date: '', count: 0} when the file is
\* missing, empty or not JSON.
UsageData(file) ==
    IF file.date = "" \/ file.tail > 0
    THEN [date |-> "", count |-> 0]
    ELSE [date |-> file.date, count |-> file.count]

\* The characters of the file from its count on; the texts written differ
\* in length by the digits of their counts only.
CountAndTail(file) ==
    IF file.date = "" THEN 0 ELSE Len(ToString(file.count)) + file.tail

\* writeFile writes the text of data from the start of the file as it is
\* then: what a longer text left beyond it stays.
Overwritten(file, data) ==
    LET written == Len(ToString(data.count))
    IN  [date  |-> data.date,
         count |-> data.count,
         tail  |-> IF CountAndTail(file) > written
                   THEN CountAndTail(file) - written
                   ELSE 0]

\* The rejections of writeUsage: of mkdir or of the opening of the file,
\* the file untouched, and of the writing, the file left empty.
WriteErrors ==
    {[message |-> "EEXIST: file already exists, mkdir", opened |-> FALSE],
     [message |-> "EISDIR: illegal operation on a directory, open",
      opened  |-> FALSE],
     [message |-> "ENOSPC: no space left on device, write", opened |-> TRUE]}

\* The arguments of the calls: the compliant invoice, without typeCode or
\* profile, and with a broken rule.
RequestInvoices ==
    {CompliantInvoice,
     Remove(CompliantInvoice, "typeCode"),
     Remove(Remove(CompliantInvoice, "typeCode"), "profile"),
     Put(CompliantInvoice, "number", ""),
     Put(CompliantInvoice, "lines", <<>>),
     Put(CompliantInvoice, "lines", <<NullValue>>)}

\* The tools that take an invoice.
FreeTools == {"facturx_generate", "facturx_validate"}

\* The invoices submitted to the pre-flight check: as for generation, the
\* two that it treats like the compliant one left out.
PreflightInvoices ==
    RequestInvoices \ {Remove(CompliantInvoice, "typeCode"),
                       Put(CompliantInvoice, "lines", <<>>)}

\* The two other tools open to all; their arguments are those of a preview
\* of the compliant invoice.
OtherFreeTools == {"facturx_parse", "facturx_compute_totals"}

PRO_TOOLS ==
    {"facturx_create_pdf", "facturx_extract_from_pdf",
     "chorus_submit", "chorus_get_status", "chorus_list_invoices"}

NewRequest(tool, inv) ==
    [tool       |-> tool,
     submitted  |-> inv,
     args       |-> inv,
     pc         |-> "start",
     validation |-> <<>>,
     xml        |-> <<>>,
     data       |-> <<>>,
     opened     |-> FALSE,
     wrote      |-> FALSE,
     performed  |-> FALSE,
     response   |-> <<>>]

\* The count of today in the content read: 0 on a new day.
UsedToday(data) == IF data.date = Today THEN data.count ELSE 0

\* Mutant of ApplyDefaults: the profile gets no default.
ApplyDefaults_TypeCodeOnly(inv) ==
    IF Truthy(inv, "typeCode") THEN inv ELSE Put(inv, "typeCode", "380")

\* if (!invoice.typeCode) invoice.typeCode = '380';
\* if (!invoice.profile)  invoice.profile  = 'EN_16931';
ApplyDefaults(inv) ==
    LET typed == IF Truthy(inv, "typeCode") THEN inv ELSE Put(inv, "typeCode", "380")
    IN  IF Truthy(typed, "profile") THEN typed ELSE Put(typed, "profile", "EN_16931")

\* Mutant of PassesGate: generation goes on whatever the validation says.
PassesGate_Always(validation) == TRUE

\* !validation.valid is false
PassesGate(validation) == validation.valid

\* Mutant of CountAfter: the count goes on from the day before.
CountAfter_WithoutRestart(data) == data.count + 1

\* data.date === todayStr ? data.count + 1 : 1
CountAfter(data) == IF data.date = Today THEN data.count + 1 ELSE 1

\* The results returned to the caller.
QuotaDenied(used) ==
    [isError |-> TRUE, kind |-> "quota", used |-> used, limit |-> FREE_DAILY_LIMIT]

\* err('Facture invalide :...') listing the errors, then the warnings
InvalidInvoice(validation) ==
    [isError  |-> TRUE, kind |-> "invalid",
     errors   |-> validation.errors,
     warnings |-> validation.warnings]

\* The catch block: err(message) of the exception.
Failed(exception) == [isError |-> TRUE, kind |-> "exception", message |-> exception]

\* ok(summary): the totals, the warnings and the XML document
Generated(inv, validation, document) ==
    [isError  |-> FALSE, kind |-> "generated",
     totals   |-> calculateTotals(InvoiceNumbers(inv)),
     warnings |-> validation.warnings,
     xml      |-> document]

\* ok(lines) of facturx_validate
Validated(validation) ==
    [isError  |-> FALSE, kind |-> "validated",
     valid    |-> validation.valid,
     errors   |-> validation.errors,
     warnings |-> validation.warnings]

\* ok(text) of facturx_parse: the invoice read and its totals
Parsed(outcome) == [isError |-> FALSE, kind |-> "parsed", invoice |-> outcome]

\* ok(text) of facturx_compute_totals
Computed(inv) ==
    [isError |-> FALSE, kind |-> "totals",
     totals  |-> calculateTotals(InvoiceNumbers(inv))]

\* The result of a Pro tool: ok(text) once its action has succeeded,
\* err(message) when an argument is missing or the action has failed.
ProResult(tool, succeeded) ==
    [isError |-> ~succeeded, kind |-> "pro", tool |-> tool]


\* buildUpgradeMessage(name, currentLicense), isError: true
UpgradeRequired(tool) == [isError |-> TRUE, kind |-> "upgrade", tool |-> tool]

\* Mutant of ProGated: the gate guards the PDF tools only.
ProGated_PdfToolsOnly(tool) ==
    tool \in {"facturx_create_pdf", "facturx_extract_from_pdf"} /\ ~license

\* PRO_TOOLS.has(name) && !currentLicense.valid
ProGated(tool) == tool \in PRO_TOOLS /\ ~license

\* With a valid license usage.json is never read: one content stands for
\* all.
InitServer ==
    /\ license \in BOOLEAN
    /\ usage \in IF license THEN {UsageFile(Today, 9)} ELSE UsageAtStart
    /\ requests = <<>>
    /\ generatedToday = UsedToday(usage)

\* A tool call arrives.
ReceiveCall(tool, inv) ==
    /\ Len(requests) < MaxRequests
    /\ requests' = Append(requests, NewRequest(tool, inv))
    /\ UNCHANGED <<license, usage, generatedToday>>
    /\ UNCHANGED <<totalsVars, validatorVars, codecVars, serviceVars>>

\* facturx_generate without a valid license: await checkFreeQuota().
CheckFreeQuota(i) ==
    LET r    == requests[i]
        used == UsedToday(UsageData(usage))
    IN  /\ r.tool = "facturx_generate"
        /\ r.pc = "start"
        /\ ~license
        /\ requests' =
             [requests EXCEPT ![i] =
                IF used >= FREE_DAILY_LIMIT
                THEN [r EXCEPT !.pc = "done", !.response = <<QuotaDenied(used)>>]
                ELSE [r EXCEPT !.pc = "run"]]
        /\ UNCHANGED <<license, usage, generatedToday>>
        /\ UNCHANGED <<totalsVars, validatorVars, codecVars, serviceVars>>

\* facturx_generate from the defaults to the result, or to the await of
\* incrementFreeUsage(): defaults, validateInvoice, generateFacturX.
GenerateRequest(i) ==
    LET r          == requests[i]
        inv        == ApplyDefaults(r.args)
        validation == validateInvoice(inv)
        validated  == [r EXCEPT !.args = inv, !.validation = <<validation>>]
    IN  /\ r.tool = "facturx_generate"
        /\ r.pc = "run" \/ (r.pc = "start" /\ license)
        /\ requests' =
             [requests EXCEPT ![i] =
                IF Has(validation, "threw")
                THEN [validated EXCEPT !.pc = "done",
                                       !.response = <<Failed(validation.threw)>>]
                ELSE IF ~PassesGate(validation)
                THEN [validated EXCEPT !.pc = "done",
                                       !.response = <<InvalidInvoice(validation)>>]
                ELSE IF license
                THEN [validated EXCEPT
                        !.xml = <<generateFacturX(inv)>>,
                        !.pc = "done",
                        !.response =
                            <<Generated(inv, validation, generateFacturX(inv))>>]
                ELSE [validated EXCEPT !.xml = <<generateFacturX(inv)>>,
                                       !.pc = "increment"]]
        /\ generatedToday' =
             IF requests'[i].response # <<>> /\ ~requests'[i].response[1].isError
             THEN generatedToday + 1
             ELSE generatedToday
        /\ UNCHANGED <<license, usage>>
        /\ UNCHANGED <<totalsVars, validatorVars, codecVars, serviceVars>>

\* incrementFreeUsage(): await readUsage().
ReadUsage(i) ==
    LET r == requests[i]
    IN  /\ r.pc = "increment"
        /\ requests' = [requests EXCEPT ![i] = [r EXCEPT !.pc = "write",
                                                         !.data = <<UsageData(usage)>>]]
        /\ UNCHANGED <<license, usage, generatedToday>>
        /\ UNCHANGED <<totalsVars, validatorVars, codecVars, serviceVars>>

\* writeUsage({date, count}): mkdir has resolved and writeFile opens
\* usage.json for writing, which empties it.
OpenUsage(i) ==
    LET r == requests[i]
    IN  /\ r.pc = "write"
        /\ ~r.opened
        /\ usage' = NoUsageFile
        /\ requests' = [requests EXCEPT ![i] = [r EXCEPT !.opened = TRUE]]
        /\ UNCHANGED <<license, generatedToday>>
        /\ UNCHANGED <<totalsVars, validatorVars, codecVars, serviceVars>>

\* writeFile writes its text; the handler stays suspended on its promise.
WriteUsage(i) ==
    LET r     == requests[i]
        count == CountAfter(r.data[1])
    IN  /\ r.pc = "write"
        /\ r.opened
        /\ ~r.wrote
        /\ usage' = Overwritten(usage, [date |-> Today, count |-> count])
        /\ requests' = [requests EXCEPT ![i] = [r EXCEPT !.wrote = TRUE]]
        /\ UNCHANGED <<license, generatedToday>>
        /\ UNCHANGED <<totalsVars, validatorVars, codecVars, serviceVars>>

\* writeUsage({date, count}) rejects and the catch block answers.
WriteUsageFails(i, error) ==
    LET r == requests[i]
    IN  /\ r.pc = "write"
        /\ ~r.wrote
        /\ r.opened = error.opened
        /\ requests' =
             [requests EXCEPT ![i] =
                [r EXCEPT !.pc = "done",
                          !.response = <<Failed(error.message)>>]]
        /\ UNCHANGED <<license, usage, generatedToday>>
        /\ UNCHANGED <<totalsVars, validatorVars, codecVars, serviceVars>>

\* The await of incrementFreeUsage() resumes: the call returns its document.
ReturnGenerated(i) ==
    LET r == requests[i]
    IN  /\ r.pc = "write"
        /\ r.wrote
        /\ requests' =
             [requests EXCEPT ![i] =
                [r EXCEPT !.pc = "done",
                          !.response =
                              <<Generated(r.args, r.validation[1], r.xml[1])>>]]
        /\ generatedToday' = generatedToday + 1
        /\ UNCHANGED <<license, usage>>
        /\ UNCHANGED <<totalsVars, validatorVars, codecVars, serviceVars>>

\* facturx_validate: validateInvoice of the arguments as passed.
ValidateRequest(i) ==
    LET r          == requests[i]
        validation == validateInvoice(r.args)
    IN  /\ r.tool = "facturx_validate"
        /\ r.pc = "start"
        /\ requests' =
             [requests EXCEPT ![i] =
                [r EXCEPT !.pc = "done",
                          !.validation = <<validation>>,
                          !.response =
                              IF Has(validation, "threw")
                              THEN <<Failed(validation.threw)>>
                              ELSE <<Validated(validation)>>]]
        /\ UNCHANGED <<license, usage, generatedToday>>
        /\ UNCHANGED <<totalsVars, validatorVars, codecVars, serviceVars>>

\* facturx_parse and facturx_compute_totals: no gate, no quota, no file.
OtherFreeRequest(i) ==
    LET r == requests[i]
    IN  /\ r.tool \in OtherFreeTools
        /\ r.pc = "start"
        /\ ~ProGated(r.tool)
        /\ requests' =
             [requests EXCEPT ![i] =
                [r EXCEPT !.pc = "done",
                          !.response =
                              IF r.tool = "facturx_parse"
                              THEN <<Parsed(parseFacturXXml(generateFacturX(r.args)))>>
                              ELSE <<Computed(r.args)>>]]
        /\ UNCHANGED <<license, usage, generatedToday>>
        /\ UNCHANGED <<totalsVars, validatorVars, codecVars, serviceVars>>

\* A Pro tool without a valid license: the upgrade message, before the
\* switch on the tool is entered.
RefuseProTool(i) ==
    LET r == requests[i]
    IN  /\ r.pc = "start"
        /\ ProGated(r.tool)
        /\ requests' =
             [requests EXCEPT ![i] =
                [r EXCEPT !.pc = "done", !.response = <<UpgradeRequired(r.tool)>>]]
        /\ UNCHANGED <<license, usage, generatedToday>>
        /\ UNCHANGED <<totalsVars, validatorVars, codecVars, serviceVars>>

\* A Pro tool past the gate: err(...) when it is not ready (an argument it
\* checks is missing, or getChorusClient throws for a CHORUS_* variable that
\* is not set), else its action (file read or write, Chorus Pro request) is
\* started and awaited.
StartProTool(i, ready) ==
    LET r == requests[i]
    IN  /\ r.tool \in PRO_TOOLS
        /\ r.pc = "start"
        /\ ~ProGated(r.tool)
        /\ requests' =
             [requests EXCEPT ![i] =
                IF ready
                THEN [r EXCEPT !.pc = "action", !.performed = TRUE]
                ELSE [r EXCEPT !.pc = "done",
                               !.response = <<ProResult(r.tool, FALSE)>>]]
        /\ UNCHANGED <<license, usage, generatedToday>>
        /\ UNCHANGED <<totalsVars, validatorVars, codecVars, serviceVars>>

\* The action awaited ends: ok(text) when it succeeded, err(message) when it
\* threw or found no XML in the PDF.
FinishProTool(i, succeeded) ==
    LET r == requests[i]
    IN  /\ r.pc = "action"
        /\ requests' =
             [requests EXCEPT ![i] =
                [r EXCEPT !.pc = "done",
                          !.response = <<ProResult(r.tool, succeeded)>>]]
        /\ UNCHANGED <<license, usage, generatedToday>>
        /\ UNCHANGED <<totalsVars, validatorVars, codecVars, serviceVars>>

NextServer ==
    \/ \E inv \in RequestInvoices : ReceiveCall("facturx_generate", inv)
    \/ \E inv \in PreflightInvoices : ReceiveCall("facturx_validate", inv)
    \/ \E tool \in OtherFreeTools \cup PRO_TOOLS : ReceiveCall(tool, CompliantInvoice)
    \/ \E i \in 1..Len(requests) : OtherFreeRequest(i)
    \/ \E i \in 1..Len(requests) : RefuseProTool(i)
    \/ \E i \in 1..Len(requests), ready \in BOOLEAN : StartProTool(i, ready)
    \/ \E i \in 1..Len(requests), succeeded \in BOOLEAN : FinishProTool(i, succeeded)
    \/ \E i \in 1..Len(requests) : CheckFreeQuota(i)
    \/ \E i \in 1..Len(requests) : GenerateRequest(i)
    \/ \E i \in 1..Len(requests) : ReadUsage(i)
    \/ \E i \in 1..Len(requests) : OpenUsage(i)
    \/ \E i \in 1..Len(requests) : WriteUsage(i)
    \/ \E i \in 1..Len(requests), error \in WriteErrors : WriteUsageFails(i, error)
    \/ \E i \in 1..Len(requests) : ReturnGenerated(i)
    \/ \E i \in 1..Len(requests) : ValidateRequest(i)

\* A sequential run: a call arrives once the calls before it have returned.
AllReturned == \A i \in 1..Len(requests) : requests[i].pc = "done"

ReceiveInTurn(tool, inv) == AllReturned /\ ReceiveCall(tool, inv)

NextSequential ==
    \/ \E inv \in RequestInvoices : ReceiveInTurn("facturx_generate", inv)
    \/ \E inv \in PreflightInvoices : ReceiveInTurn("facturx_validate", inv)
    \/ \E tool \in OtherFreeTools \cup PRO_TOOLS : ReceiveInTurn(tool, CompliantInvoice)
    \/ \E i \in 1..Len(requests) : OtherFreeRequest(i)
    \/ \E i \in 1..Len(requests) : RefuseProTool(i)
    \/ \E i \in 1..Len(requests), ready \in BOOLEAN : StartProTool(i, ready)
    \/ \E i \in 1..Len(requests), succeeded \in BOOLEAN : FinishProTool(i, succeeded)
    \/ \E i \in 1..Len(requests) : CheckFreeQuota(i)
    \/ \E i \in 1..Len(requests) : GenerateRequest(i)
    \/ \E i \in 1..Len(requests) : ReadUsage(i)
    \/ \E i \in 1..Len(requests) : OpenUsage(i)
    \/ \E i \in 1..Len(requests) : WriteUsage(i)
    \/ \E i \in 1..Len(requests), error \in WriteErrors : WriteUsageFails(i, error)
    \/ \E i \in 1..Len(requests) : ReturnGenerated(i)
    \/ \E i \in 1..Len(requests) : ValidateRequest(i)

(***************************************************************************)
(* The Chorus Pro client (client.ts): getToken and its token cache.  Time  *)
(* is counted in seconds.                                                  *)
(*   accessToken  this.accessToken: the token cached, 0 for null; the      *)
(*                tokens the authentication server issues are 1, 2, ...    *)
(*   tokenExpiry  this.tokenExpiry                                         *)
(*   chorusNow    Date.now()                                               *)
(*   tokenCalls   the calls of getToken, each a record:                    *)
(*     pc       "fetching" (at the await of fetch), "returned", "threw"    *)
(*     token    the token returned, 0 before                               *)
(*     fetched  the token was obtained by this call's own request          *)
(*     at       the time of the return                                     *)
(*   grants     the tokens issued by the authentication server: for each   *)
(*              the call that asked and the expiry recorded with it        *)
(***************************************************************************)
\* 10_000 ms
TOKEN_MARGIN == 10

\* expires_in of the answers of the authentication server.
ExpiresIn == {5, 30}

Ticks == {10, 20}

\* Mutant of CacheUsable: no margin before the expiry.
CacheUsable_WithoutMargin(token, now, expiry) == token # 0 /\ now < expiry

\* this.accessToken && Date.now() < this.tokenExpiry - 10_000
CacheUsable(token, now, expiry) == token # 0 /\ now < expiry - TOKEN_MARGIN

InitChorus ==
    /\ accessToken = 0
    /\ tokenExpiry = 0
    /\ chorusNow = 0
    /\ tokenCalls = <<>>
    /\ grants = <<>>

ChorusTick(d) ==
    /\ chorusNow + d <= MaxClock
    /\ chorusNow' = chorusNow + d
    /\ UNCHANGED <<accessToken, tokenExpiry, tokenCalls, grants>>
    /\ UNCHANGED <<coreVars, licenseVars, webhookVars>>

\* getToken() up to its return of the cached token or to the await of
\* fetch.
GetToken ==
    /\ Len(tokenCalls) < MaxTokenCalls
    /\ tokenCalls' =
         Append(tokenCalls,
                IF CacheUsable(accessToken, chorusNow, tokenExpiry)
                THEN [pc |-> "returned", token |-> accessToken,
                      fetched |-> FALSE, at |-> chorusNow]
                ELSE [pc |-> "fetching", token |-> 0,
                      fetched |-> FALSE, at |-> 0])
    /\ UNCHANGED <<accessToken, tokenExpiry, chorusNow, grants>>
    /\ UNCHANGED <<coreVars, licenseVars, webhookVars>>

\* The authentication request of call c is answered with a token: it is
\* cached with its expiry and returned.
AuthGranted(c, expiresIn) ==
    LET token  == Len(grants) + 1
        expiry == chorusNow + expiresIn
    IN  /\ tokenCalls[c].pc = "fetching"
        /\ accessToken' = token
        /\ tokenExpiry' = expiry
        /\ grants' = Append(grants, [call |-> c, expiry |-> expiry])
        /\ tokenCalls' =
             [tokenCalls EXCEPT ![c] =
                [pc |-> "returned", token |-> token,
                 fetched |-> TRUE, at |-> chorusNow]]
        /\ UNCHANGED chorusNow
        /\ UNCHANGED <<coreVars, licenseVars, webhookVars>>

\* The authentication request of call c fails (!res.ok, or no answer):
\* getToken throws.
AuthRefused(c) ==
    /\ tokenCalls[c].pc = "fetching"
    /\ tokenCalls' = [tokenCalls EXCEPT ![c].pc = "threw"]
    /\ UNCHANGED <<accessToken, tokenExpiry, chorusNow, grants>>
    /\ UNCHANGED <<coreVars, licenseVars, webhookVars>>

NextChorus ==
    \/ \E d \in Ticks : ChorusTick(d)
    \/ GetToken
    \/ \E c \in 1..Len(tokenCalls), expiresIn \in ExpiresIn : AuthGranted(c, expiresIn)
    \/ \E c \in 1..Len(tokenCalls) : AuthRefused(c)

(***************************************************************************)
(* The license check (license.ts): validateLicenseKey and its in-memory    *)
(* cache.  Time is counted in minutes.  A key is modelled by what _validate *)
(* finds in it: its prefix, its two parts, the verdict of crypto.verify on *)
(* its signature, and the payload signed.                                  *)
(*   cachedResult  <<result>> cached, <<>> for null                        *)
(*   cacheExpiry   the time up to which cachedResult is served             *)
(*   licenseNow    Date.now()                                              *)
(*   verdicts      the calls of validateLicenseKey made: the key passed,   *)
(*                 the time of the call and the result returned            *)
(***************************************************************************)
\* 60 * 60 * 1000 ms
CACHE_TTL_MS == 60

\* 5 * 60 * 1000 ms
NEGATIVE_TTL == 5

\* 86_400_000 ms
DAY == 1440

\* The payloads signed: expiresAt as written in the key.
Payload(plan, expiresAt) == [plan |-> plan, expiresAt |-> expiresAt]

Key(prefix, separator, parts, signed, readable, payload) ==
    [prefix |-> prefix, separator |-> separator, parts |-> parts,
     signed |-> signed, readable |-> readable, payload |-> payload]

LicenseKeys ==
    {Key(FALSE, FALSE, FALSE, FALSE, FALSE, <<>>),
     Key(TRUE, FALSE, FALSE, FALSE, FALSE, <<>>),
     Key(TRUE, TRUE, FALSE, FALSE, FALSE, <<>>),
     Key(TRUE, TRUE, TRUE, FALSE, TRUE, Payload("pro", "2024-01-17T02:00Z")),
     Key(TRUE, TRUE, TRUE, TRUE, FALSE, <<>>),
     Key(TRUE, TRUE, TRUE, TRUE, TRUE, Payload("pro", "2024-01-14")),
     Key(TRUE, TRUE, TRUE, TRUE, TRUE, Payload("pro", "2024-01-15T00:30Z")),
     Key(TRUE, TRUE, TRUE, TRUE, TRUE, Payload("enterprise", "2024-01-17T02:00Z"))}

LicenseTicks == {5, 30}

\* new Date(text).getTime() of a date of January 2024 written YYYY-MM-DD,
\* which is read as UTC, or YYYY-MM-DDTHH:MMZ, in minutes from the start of
\* the run, which is the first minute of the 15th, UTC.  (A time written
\* without its Z is read in the time zone of the process; no key of
\* LicenseKeys is written so.)
DateMinutes(text) ==
    LET day    == DigitsValue(SubSeq(text, 9, 10))
        hour   == IF Len(text) > 10 THEN DigitsValue(SubSeq(text, 12, 13)) ELSE 0
        minute == IF Len(text) > 10 THEN DigitsValue(SubSeq(text, 15, 16)) ELSE 0
    IN  (day - 15) * DAY + 60 * hour + minute

Refused(error) == [valid |-> FALSE, plan |-> "free", error |-> error]

\* _validate(key) at time now; the messages are written without their
\* accents, their dash as a hyphen.
ValidateKey(key, now) ==
    IF ~key.prefix
    THEN Refused("Format de cle invalide (doit commencer par FTRX-)")
    ELSE IF ~key.separator
    THEN Refused("Format de cle invalide (separateur manquant)")
    ELSE IF ~key.parts
    THEN Refused("Cle de licence corrompue")
    ELSE IF ~key.signed
    THEN Refused("Signature de licence invalide - cle refusee")
    ELSE IF ~key.readable
    THEN Refused("Payload de licence illisible")
    ELSE LET expiresAt == DateMinutes(key.payload.expiresAt)
         IN  IF expiresAt < now
             THEN [valid     |-> FALSE,
                   plan      |-> "free",
                   expiresAt |-> expiresAt,
                   daysLeft  |-> 0,
                   error     |-> "Licence expiree le " \o key.payload.expiresAt
                                   \o " - renouvelez sur polar.sh"]
             ELSE [valid     |-> TRUE,
                   plan      |-> key.payload.plan,
                   expiresAt |-> expiresAt,
                   daysLeft  |-> (expiresAt - now) \div DAY]

\* cachedResult && Date.now() < cacheExpiry
CacheHit == cachedResult # <<>> /\ licenseNow < cacheExpiry

\* validateLicenseKey(rawKey): the result returned
LicenseResult(key) ==
    IF CacheHit THEN cachedResult[1] ELSE ValidateKey(key, licenseNow)

InitLicense ==
    /\ cachedResult = <<>>
    /\ cacheExpiry = 0
    /\ licenseNow = 0
    /\ verdicts = <<>>

LicenseTick(d) ==
    /\ licenseNow + d <= MaxMinutes
    /\ licenseNow' = licenseNow + d
    /\ UNCHANGED <<cachedResult, cacheExpiry, verdicts>>
    /\ UNCHANGED <<coreVars, chorusVars, webhookVars>>

validateLicenseKey(key) ==
    LET res == LicenseResult(key)
    IN  /\ Len(verdicts) < MaxVerdicts
        /\ verdicts' = Append(verdicts, [key    |-> key,
                                         at     |-> licenseNow,
                                         cached |-> CacheHit,
                                         result |-> res])
        /\ IF CacheHit
           THEN UNCHANGED <<cachedResult, cacheExpiry>>
           ELSE /\ cachedResult' = <<res>>
                /\ cacheExpiry' =
                     licenseNow + (IF res.valid THEN CACHE_TTL_MS ELSE NEGATIVE_TTL)
        /\ UNCHANGED licenseNow
        /\ UNCHANGED <<coreVars, chorusVars, webhookVars>>

clearLicenseCache ==
    /\ cachedResult # <<>>
    /\ cachedResult' = <<>>
    /\ cacheExpiry' = 0
    /\ UNCHANGED <<licenseNow, verdicts>>
    /\ UNCHANGED <<coreVars, chorusVars, webhookVars>>

NextLicense ==
    \/ \E d \in LicenseTicks : LicenseTick(d)
    \/ \E key \in LicenseKeys : validateLicenseKey(key)
    \/ clearLicenseCache

(***************************************************************************)
(* The Polar.sh webhook (api/webhook.ts).  Time is counted in seconds.     *)
(*   hooks    the requests received, each with its position in the handler *)
(*            (reading the body, sending the email, done), the steps taken *)
(*            on it, the key generated for it and the response given       *)
(*   hookNow  Date.now() / 1000                                            *)
(* The HMAC of a message under a key is the pair of the two; the message   *)
(* signed is the triple of the id, the timestamp header and the body.  A   *)
(* body is the JSON value it parses to, or no JSON at all.                 *)
(***************************************************************************)
REPLAY_WINDOW == 300

ENTERPRISE_AMOUNT == 4000

DEFAULT_AMOUNT == 999

HookTicks == {150}

TRIGGER_EVENTS == {"order.created", "subscription.created", "subscription.active"}

POLAR_WEBHOOK_SECRET == "whsec"

Hmac(key, message) == [key |-> key, message |-> message]

\* `${msgId}.${msgTimestamp}.${rawBody}`
ToSign(msgId, msgTimestamp, rawBody) == <<msgId, msgTimestamp, rawBody>>

\* parseInt(text, 10): leading white space, a sign, then the digits found.
parseInt(text) ==
    LET s        == TrimStart(text)
        negative == Len(s) > 0 /\ Char(s, 1) = "-"
        signed   == Len(s) > 0 /\ Char(s, 1) \in {"-", "+"}
        body     == IF signed THEN SubSeq(s, 2, Len(s)) ELSE s
        n        == DigitPrefix(body)
        value    == DigitsValue(SubSeq(body, 1, n))
    IN  IF n = 0 THEN NaN ELSE Finite(IF negative THEN -value ELSE value)

\* Math.abs(Date.now() / 1000 - ts) > 300, negated
TimestampFresh_PastOnly(ts, now) == now - ts <= REPLAY_WINDOW

TimestampFresh(ts, now) == Abs(now - ts) <= REPLAY_WINDOW

verifyPolarSignature(rawBody, headers, secret, now) ==
    LET msgId        == headers["webhook-id"]
        msgTimestamp == headers["webhook-timestamp"]
        msgSignature == headers["webhook-signature"]
        ts           == parseInt(msgTimestamp)
        expected     == Hmac(secret, ToSign(msgId, msgTimestamp, rawBody))
    IN  IF msgId = "" \/ msgTimestamp = "" \/ msgSignature = <<>>
        THEN FALSE
        ELSE IF IsNaN(ts) \/ ~TimestampFresh(ts.v, now)
        THEN FALSE
        ELSE \E k \in 1..Len(msgSignature) : msgSignature[k].value = expected

\* customer?.email ?? data.email
EmailOf(data) ==
    IF Has(data, "customer") /\ Has(data["customer"], "email")
    THEN data["customer"]["email"]
    ELSE IF Has(data, "email") THEN data["email"] ELSE ""

\* data.amount ?? productPrice?.price_amount ?? 999
AmountOf(data) ==
    IF Has(data, "amount") THEN data["amount"]
    ELSE IF Has(data, "product_price")
             /\ Has(data["product_price"], "price_amount")
    THEN data["product_price"]["price_amount"]
    ELSE DEFAULT_AMOUNT

PlanOf(data) ==
    IF AmountOf(data) >= ENTERPRISE_AMOUNT THEN "enterprise" ELSE "pro"

Response(status, body) == [status |-> status, body |-> body]

NoResponse == Response(0, "")

\* The handler from the body read to its first response or to the call of
\* sendLicenseEmail; keyReady is whether LICENSE_PRIVATE_KEY signs.
AfterBody(h, now, keyReady) ==
    LET req     == h.req
        checked == [h EXCEPT !.log = <<"verify">>, !.verifiedAt = now]
        opened  == [checked EXCEPT !.log = <<"verify", "parse">>]
    IN  IF ~verifyPolarSignature(req.body, req.headers,
                                 POLAR_WEBHOOK_SECRET, now)
        THEN [checked EXCEPT !.pos = "done",
                             !.res = Response(401, "Invalid signature")]
        ELSE IF ~req.body.json
        THEN [opened EXCEPT !.pos = "done",
                            !.res = Response(400, "Invalid JSON")]
        ELSE IF req.body.value["type"] \notin TRIGGER_EVENTS
        THEN [opened EXCEPT !.pos = "done", !.res = Response(200, "skipped")]
        ELSE IF ~Has(req.body.value, "data")
        THEN [opened EXCEPT !.pos = "done", !.res = Response(500, "TypeError")]
        ELSE IF EmailOf(req.body.value["data"]) = ""
        THEN [opened EXCEPT !.pos = "done",
                            !.res = Response(400, "Missing customer email")]
        ELSE IF ~keyReady
        THEN [opened EXCEPT !.pos = "done",
                            !.log = <<"verify", "parse", "generate">>,
                            !.res = Response(500, "Error")]
        ELSE [opened EXCEPT
                !.pos = "sending",
                !.log = <<"verify", "parse", "generate">>,
                !.key = <<[email |-> EmailOf(req.body.value["data"]),
                           plan  |-> PlanOf(req.body.value["data"])]>>]

Signed(prefix, key, msgId, msgTimestamp, rawBody) ==
    [prefix |-> prefix, value |-> Hmac(key, ToSign(msgId, msgTimestamp, rawBody))]

OrderData == "customer" :> ("email" :> "a@b.fr") @@ "amount" :> 999

HookBodies ==
    {[json |-> FALSE],
     [json |-> TRUE, value |-> "type" :> "order.created" @@ "data" :> OrderData],
     [json |-> TRUE, value |-> "type" :> "order.refunded" @@ "data" :> OrderData],
     [json |-> TRUE, value |-> "type" :> "subscription.active"],
     [json |-> TRUE,
      value |-> "type" :> "subscription.created"
                  @@ "data" :> ("email" :> "c@d.fr"
                                  @@ "product_price" :> ("price_amount" :> 4000))],
     [json |-> TRUE,
      value |-> "type" :> "subscription.active"
                  @@ "data" :> ("customer" :> ("name" :> "A") @@ "amount" :> 4900)],
     [json |-> TRUE,
      value |-> "type" :> "order.created"
                  @@ "data" :> ("customer" :> ("email" :> "")
                                  @@ "email" :> "c@d.fr")]}

OrderBody ==
    [json |-> TRUE, value |-> "type" :> "order.created" @@ "data" :> OrderData]

HookTimestamps == {"", "soon", "699", "700", "1000", "1300 ", "1301"}

\* The webhook-signature headers tried for a request.
HookSignatures(msgId, msgTimestamp, rawBody) ==
    {<<>>,
     <<Signed("v1,", POLAR_WEBHOOK_SECRET, msgId, msgTimestamp, rawBody)>>,
     <<Signed("", POLAR_WEBHOOK_SECRET, msgId, msgTimestamp, rawBody)>>,
     <<Signed("v1,", "guess", msgId, msgTimestamp, rawBody)>>,
     <<Signed("v1,", POLAR_WEBHOOK_SECRET, msgId, "1000", rawBody)>>,
     <<Signed("v1,", POLAR_WEBHOOK_SECRET, msgId, msgTimestamp, [json |-> FALSE])>>,
     <<Signed("v1,", "guess", msgId, msgTimestamp, rawBody),
       Signed("v1,", POLAR_WEBHOOK_SECRET, msgId, msgTimestamp, rawBody)>>}

Post(msgId, msgTimestamp, msgSignature, rawBody) ==
    [method  |-> "POST",
     headers |-> "webhook-id" :> msgId
                   @@ "webhook-timestamp" :> msgTimestamp
                   @@ "webhook-signature" :> msgSignature,
     body    |-> rawBody]

HookRequests ==
    {[method |-> "GET", headers |-> <<>>, body |-> [json |-> FALSE]]}
      \cup UNION {{Post("msg_1", t, sig, OrderBody) :
                     sig \in HookSignatures("msg_1", t, OrderBody)} :
                  t \in HookTimestamps}
      \cup {Post("", "1000", sig, OrderBody) :
               sig \in HookSignatures("", "1000", OrderBody)}
      \cup UNION {{Post("msg_1", "1000", sig, body) :
                     sig \in HookSignatures("msg_1", "1000", body)} :
                  body \in HookBodies}

InitWebhook ==
    /\ hooks = <<>>
    /\ hookNow = 1000

Elapse(d) ==
    /\ hookNow + d <= MaxSeconds
    /\ hookNow' = hookNow + d
    /\ UNCHANGED hooks
    /\ UNCHANGED <<coreVars, chorusVars, licenseVars>>

\* handler(req, res) up to `await readRawBody(req)`
ReceiveHook(req) ==
    LET h == [req |-> req, pos |-> "reading", log |-> <<>>, key |-> <<>>,
              emailed |-> FALSE, verifiedAt |-> 0, res |-> NoResponse]
    IN  /\ Len(hooks) < MaxHooks
        /\ hooks' = Append(hooks,
                       IF req.method # "POST"
                       THEN [h EXCEPT !.pos = "done",
                                      !.res = Response(405, "Method Not Allowed")]
                       ELSE h)
        /\ UNCHANGED hookNow
        /\ UNCHANGED <<coreVars, chorusVars, licenseVars>>

HandleBody(i, keyReady) ==
    /\ hooks[i].pos = "reading"
    /\ hooks' = [hooks EXCEPT ![i] = AfterBody(hooks[i], hookNow, keyReady)]
    /\ UNCHANGED hookNow
    /\ UNCHANGED <<coreVars, chorusVars, licenseVars>>

\* sendLicenseEmail resolves: Resend answered res.ok
EmailAccepted(i) ==
    /\ hooks[i].pos = "sending"
    /\ hooks' = [hooks EXCEPT ![i].pos = "done",
                              ![i].emailed = TRUE,
                              ![i].log = Append(@, "email"),
                              ![i].res = Response(200, "success")]
    /\ UNCHANGED hookNow
    /\ UNCHANGED <<coreVars, chorusVars, licenseVars>>

\* sendLicenseEmail throws: Resend refused or could not be reached
EmailRefused(i) ==
    /\ hooks[i].pos = "sending"
    /\ hooks' = [hooks EXCEPT ![i].pos = "done",
                              ![i].log = Append(@, "email"),
                              ![i].res = Response(500, "Error")]
    /\ UNCHANGED hookNow
    /\ UNCHANGED <<coreVars, chorusVars, licenseVars>>

NextWebhook ==
    \/ \E d \in HookTicks : Elapse(d)
    \/ \E req \in HookRequests : ReceiveHook(req)
    \/ \E i \in 1..Len(hooks), keyReady \in BOOLEAN : HandleBody(i, keyReady)
    \/ \E i \in 1..Len(hooks) : EmailAccepted(i)
    \/ \E i \in 1..Len(hooks) : EmailRefused(i)

(***************************************************************************)
(* Specifications, one per component.                                      *)
(***************************************************************************)
\* While one component is exercised the variables of the others stay as
\* they are at the start.
IdleTotals ==
    /\ invoice = [lines |-> <<>>]
    /\ totals = <<>>
    /\ firstTotals = <<>>
    /\ calls = 0
    /\ vatMap = <<>>
    /\ interleaved = FALSE
    /\ frame = <<>>

IdleServer ==
    /\ license = FALSE
    /\ usage = [date |-> "", count |-> 0, tail |-> 0]
    /\ requests = <<>>
    /\ generatedToday = 0

IdleChorus ==
    /\ accessToken = 0
    /\ tokenExpiry = 0
    /\ chorusNow = 0
    /\ tokenCalls = <<>>
    /\ grants = <<>>

IdleLicense ==
    /\ cachedResult = <<>>
    /\ cacheExpiry = 0
    /\ licenseNow = 0
    /\ verdicts = <<>>

IdleWebhook == hooks = <<>> /\ hookNow = 0

IdleCore == IdleTotals /\ InitValidator /\ InitCodec /\ IdleServer

IdleServices == IdleChorus /\ IdleLicense /\ IdleWebhook

StartTotals ==
    InitTotals /\ InitValidator /\ InitCodec /\ IdleServer /\ IdleServices

StartValidator ==
    InitValidator /\ IdleTotals /\ InitCodec /\ IdleServer /\ IdleServices

StartCodec ==
    InitCodec /\ IdleTotals /\ InitValidator /\ IdleServer /\ IdleServices

StartServer ==
    InitServer /\ IdleTotals /\ InitValidator /\ InitCodec /\ IdleServices

StartChorus == InitChorus /\ IdleCore /\ IdleLicense /\ IdleWebhook

StartLicense == InitLicense /\ IdleCore /\ IdleChorus /\ IdleWebhook

StartWebhook == InitWebhook /\ IdleCore /\ IdleChorus /\ IdleLicense

SpecTotals == StartTotals /\ [][NextTotals]_vars

SpecValidator == StartValidator /\ [][NextValidator]_vars

SpecCodec == StartCodec /\ [][NextCodec]_vars

SpecServer == StartServer /\ [][NextServer]_vars

SpecSequential == StartServer /\ [][NextSequential]_vars

SpecChorus == StartChorus /\ [][NextChorus]_vars

SpecLicense == StartLicense /\ [][NextLicense]_vars

SpecWebhook == StartWebhook /\ [][NextWebhook]_vars

(***************************************************************************)
(* Properties of calculateTotals (checked under SpecTotals).               *)
(***************************************************************************)
\* The nearest integer to n / d (d > 0), a tie going away from zero.
RoundHalfAwayFromZero(n, d) ==
    IF n >= 0 THEN (2 * n + d) \div (2 * d) ELSE -((2 * (-n) + d) \div (2 * d))

RECURSIVE SumTaxAmounts(_)
SumTaxAmounts(summaries) ==
    IF summaries = <<>> THEN 0
    ELSE Head(summaries).taxAmount + SumTaxAmounts(Tail(summaries))

\* The lines of the group (categoryCode, rate), by index.
GroupLines(lines, categoryCode, rate) ==
    {i \in 1..Len(lines) :
        lines[i].vatCategory = categoryCode /\ lines[i].vatRate = rate}

RECURSIVE SumRounded(_, _)
SumRounded(lines, idx) ==
    IF idx = {} THEN 0
    ELSE LET i == CHOOSE j \in idx : TRUE
         IN  RoundAmount(lines[i].totalAmount) + SumRounded(lines, idx \ {i})

RECURSIVE SumHalfAway(_, _)
SumHalfAway(lines, idx) ==
    IF idx = {} THEN 0
    ELSE LET i == CHOOSE j \in idx : TRUE
         IN  RoundHalfAwayFromZero(lines[i].totalAmount, 10)
               + SumHalfAway(lines, idx \ {i})

\* The lines that are the first of their (category, rate) pair.
FirstOfPair(lines) ==
    {i \in 1..Len(lines) :
        \A j \in 1..(i - 1) :
            \/ lines[j].vatCategory # lines[i].vatCategory
            \/ lines[j].vatRate # lines[i].vatRate}

\* The k-th of them in line order.
NthFirstOfPair(lines, k) ==
    CHOOSE i \in FirstOfPair(lines) :
        Cardinality({j \in FirstOfPair(lines) : j <= i}) = k

ExampleLines ==
    <<[totalAmount |-> 1500000, vatRate |-> 200, vatCategory |-> "S"]>>

ExampleTotals ==
    [lineTotalAmount     |-> 150000,
     taxBasisTotalAmount |-> 150000,
     taxTotalAmount      |-> 30000,
     grandTotalAmount    |-> 180000,
     duePayableAmount    |-> 180000,
     vatSummaries        |-> <<[categoryCode  |-> "S",
                                rate          |-> 200,
                                taxableAmount |-> 150000,
                                taxAmount     |-> 30000]>>]

\* C3: in every result of calculateTotals the tax total is the sum of the
\* groups' tax amounts, the grand total is the line total plus the tax
\* total, the due-payable amount is the grand total and the tax basis is the
\* line total; one line of 1500.00 at 20 % category S gives 1500.00 / 300.00
\* / 1800.00 with the single group (S, 20, 1500.00, 300.00).
C3_TotalsAddUp ==
    calls >= 1 =>
        LET t == totals[1]
        IN  /\ t.taxTotalAmount = SumTaxAmounts(t.vatSummaries)
            /\ t.grandTotalAmount = t.lineTotalAmount + t.taxTotalAmount
            /\ t.duePayableAmount = t.grandTotalAmount
            /\ t.taxBasisTotalAmount = t.lineTotalAmount
            /\ (invoice.lines = ExampleLines => t = ExampleTotals)

C3_Witness ==
    /\ calls >= 1
    /\ invoice.lines = ExampleLines
    /\ totals[1].grandTotalAmount = 180000

\* C4 (as claimed): every group's taxable amount is the sum of its lines'
\* rounded totals and its tax amount is taxable amount x rate / 100 rounded
\* to the cent (a half cent going away from zero).
C4_TaxRoundedFromBasis ==
    calls >= 1 =>
        \A i \in 1..Len(totals[1].vatSummaries) :
            LET v == totals[1].vatSummaries[i]
            IN  /\ v.taxableAmount =
                     SumRounded(invoice.lines,
                                GroupLines(invoice.lines, v.categoryCode, v.rate))
                /\ v.taxAmount =
                     RoundHalfAwayFromZero(v.taxableAmount * v.rate, 1000)

\* C5: the result has one tax summary per distinct (vatCategory, vatRate)
\* pair of the lines, in the order of the pairs' first appearance; a group
\* of rate 0 reports its basis with a tax amount of 0; lines of one rate and
\* different categories are in different groups.
C5_OneGroupPerPair ==
    calls >= 1 =>
        LET lines == invoice.lines
            sums  == totals[1].vatSummaries
        IN  /\ Len(sums) = Cardinality(FirstOfPair(lines))
            /\ \A k \in 1..Len(sums) :
                 LET first == lines[NthFirstOfPair(lines, k)]
                 IN  /\ sums[k].categoryCode = first.vatCategory
                     /\ sums[k].rate = first.vatRate
                     /\ sums[k].taxableAmount =
                          SumRounded(lines, GroupLines(lines, first.vatCategory,
                                                      first.vatRate))
                     /\ (sums[k].rate = 0 => sums[k].taxAmount = 0)

C5_Witness ==
    /\ calls >= 1
    /\ Len(invoice.lines) = 2
    /\ invoice.lines[1].vatRate = 0
    /\ invoice.lines[2].vatRate = 0
    /\ invoice.lines[1].vatCategory = "E"
    /\ invoice.lines[2].vatCategory = "S"
    /\ Len(totals[1].vatSummaries) = 2
    /\ totals[1].vatSummaries[1].categoryCode = "E"
    /\ totals[1].vatSummaries[1].taxableAmount # 0

\* C6 (as claimed): every line total is rounded to the cent with a half cent
\* going away from zero, negative totals included, so the line total of the
\* result is the sum of the lines' totals rounded that way.
C6_LinesRoundedHalfAway ==
    calls >= 1 =>
        totals[1].lineTotalAmount =
            SumHalfAway(invoice.lines, 1..Len(invoice.lines))

\* C7: every call of calculateTotals on the same invoice returns the result
\* of the first call, whatever calls on other invoices run in between, and
\* no step of any call, on it or on another invoice, changes the invoice
\* the caller holds.
C7_DeterministicAndPure ==
    /\ [](calls >= 1 => totals = firstTotals)
    /\ [][invoice' = invoice]_vars

\* A second call on an invoice of two lines has returned, entered after a
\* call on another invoice had filled and left its own Map.
C7_Witness ==
    /\ calls >= 2
    /\ interleaved
    /\ frame[1].own
    /\ frame[1].returned
    /\ frame[1].k = 2
    /\ totals = firstTotals
    /\ Len(invoice.lines) = 2

(***************************************************************************)
(* Properties of validateInvoice (checked under SpecValidator).            *)
(***************************************************************************)
\* The five values of FacturXProfile.
FacturXProfiles == {"MINIMUM", "BASIC_WL", "BASIC", "EN_16931", "EXTENDED"}

Called == result # <<>>

Returned == Called /\ Has(result[1], "valid")

\* The message names the business term BT-1.
MentionsBT1(msg) == SubSeq(msg.text, 1, 5) = "BT-1 "

\* The number is missing, empty or blank.
NumberEmpty(inv) == ~Has(inv, "number") \/ Trim(inv.number) = ""

\* C8 (as claimed): validateInvoice never throws; whatever is passed, parts
\* missing or a null entry among the lines, the call returns a result
\* {valid, errors, warnings}.
C8_NeverThrows ==
    Called =>
        /\ Has(result[1], "valid")
        /\ Has(result[1], "errors")
        /\ Has(result[1], "warnings")

\* C9 (as claimed): whatever the other fields contain, an invoice whose number
\* is empty or blank gets valid = false with an error naming BT-1, and an
\* invoice without lines gets valid = false.
C9_RejectsEmptyNumberAndNoLines ==
    Called =>
        /\ NumberEmpty(args) =>
             /\ Returned
             /\ result[1].valid = FALSE
             /\ \E k \in 1..Len(result[1].errors) : MentionsBT1(result[1].errors[k])
        /\ NoLines(args) => (Returned /\ result[1].valid = FALSE)

\* The line's three amounts are finite numbers.
FiniteAmounts(line) ==
    /\ ~IsNull(line)
    /\ \A f \in {"quantity", "unitPrice", "totalAmount"} :
          Has(line, f) /\ TypeofNumber(line[f]) /\ line[f].kind = "finite"

\* |quantity x unitPrice - totalAmount| in cents, both rounded to the cent.
Discrepancy(line) == Abs(LineExpected(line).v - LineActual(line).v)

\* The invoice with the amounts of its lines replaced by consistent ones.
WithConsistentAmounts(inv) ==
    Put(inv, "lines",
        [k \in 1..Len(inv.lines) |->
            Put(Put(Put(inv.lines[k], "quantity", CompliantLine.quantity),
                    "unitPrice", CompliantLine.unitPrice),
                "totalAmount", CompliantLine.totalAmount)])

\* Nothing but the amounts of its lines keeps the invoice from being
\* compliant.
OtherwiseCompliant(inv) ==
    /\ ~NoLines(inv)
    /\ \A k \in 1..Len(inv.lines) : FiniteAmounts(inv.lines[k])
    /\ validateInvoice(WithConsistentAmounts(inv)).valid

HasAmountWarning(warnings, line, k) ==
    \E w \in 1..Len(warnings) : warnings[w] = AmountWarning(line, k)

\* C10 (as claimed): in an otherwise compliant invoice a line whose total
\* differs from quantity x unit price by more than 0.02 adds a warning
\* citing the discrepancy and no error (valid stays true), and a line that
\* differs by at most 0.02 adds no such warning.
C10_AmountMismatchWarns ==
    (Called /\ OtherwiseCompliant(args)) =>
        /\ Returned
        /\ result[1].valid
        /\ \A k \in 1..Len(args.lines) :
             HasAmountWarning(result[1].warnings, args.lines[k], k)
               <=> Discrepancy(args.lines[k]) > 2

\* C11: in every result of validateInvoice, valid is true exactly when the
\* errors list is empty, whatever the warnings are.
C11_ValidIffNoErrors ==
    Returned => (result[1].valid <=> Len(result[1].errors) = 0)

\* A result that is valid although it carries warnings.
C11_Witness ==
    Returned /\ result[1].valid /\ Len(result[1].warnings) > 0

\* C12 (as claimed): a profile that is not one of the five recognized values,
\* a non-empty unrecognized string included, makes the invoice invalid.
C12_UnknownProfileRejected ==
    (Returned /\ ~(Has(args, "profile") /\ args.profile \in FacturXProfiles))
        => result[1].valid = FALSE

\* The number is not finite: NaN, an infinity, or not a number at all.
NotFinite(line, f) ==
    ~(Has(line, f) /\ TypeofNumber(line[f]) /\ line[f].kind = "finite")

\* The line breaks the rule on its numbers: quantity, unit price and total
\* amount finite, VAT rate finite and not negative.
BadNumbers(line) ==
    \/ \E f \in {"quantity", "unitPrice", "totalAmount", "vatRate"} :
          NotFinite(line, f)
    \/ line.vatRate.v < 0

\* C13 (as claimed): a line whose quantity, unit price or total amount is not
\* a finite number, or whose VAT rate is not a finite number or is negative,
\* makes the invoice invalid.
C13_NonFiniteNumbersRejected ==
    (Returned /\ ~NoLines(args)
       /\ \E k \in 1..Len(args.lines) : BadNumbers(args.lines[k]))
        => result[1].valid = FALSE

\* C14: every line whose id equals the id of an earlier line adds the
\* duplicate-identifier error, so a valid invoice has pairwise distinct line
\* identifiers.
C14_UniqueLineIds ==
    (Returned /\ ~NoLines(args)) =>
        \A k \in 1..Len(args.lines) : \A j \in 1..(k - 1) :
            LineIdKey(args.lines[j]) = LineIdKey(args.lines[k]) =>
                /\ result[1].valid = FALSE
                /\ \E e \in 1..Len(result[1].errors) :
                      result[1].errors[e] = DuplicateIdError(args.lines[k], k)

\* Two lines with the same id, rejected for that reason alone.
C14_Witness ==
    /\ Returned
    /\ ~NoLines(args)
    /\ Len(args.lines) = 2
    /\ LineIdKey(args.lines[1]) = LineIdKey(args.lines[2])
    /\ result[1].errors = <<DuplicateIdError(args.lines[2], 2)>>

(***************************************************************************)
(* Properties of generateFacturX and parseFacturXXml (checked under        *)
(* SpecCodec).                                                             *)
(***************************************************************************)
ParsedBack == parsed # <<>>

\* C2 (as claimed): for each of the five profiles, the profile the parser
\* infers from the URN the generator emits for it is that profile.
C2_ProfileRoundTrip ==
    (ParsedBack /\ changes = <<>> /\ source.profile \in FacturXProfiles) =>
        /\ ~Has(parsed[1], "threw")
        /\ parsed[1].profile = source.profile

\* Two amounts (mils) equal to 2 decimals: at most half a cent apart, as a
\* number and its rounding to the cent are.
EqualToTwoDecimals(a, b) ==
    a.kind = "finite" /\ b.kind = "finite" /\ Abs(a.v - b.v) <= 5

AmountProperties == {"unitPrice", "totalAmount"}

\* The line with its amounts put aside: what must be reproduced exactly.
WithoutAmounts(line) == [f \in DOMAIN line \ AmountProperties |-> line[f]]

SameLine(a, b) ==
    /\ WithoutAmounts(a) = WithoutAmounts(b)
    /\ \A f \in AmountProperties : EqualToTwoDecimals(a[f], b[f])

\* Every field of the invoice data model reproduced: all but the lines
\* exactly, the lines exactly but for their amounts, equal to 2 decimals.
SameInvoice(a, b) ==
    /\ Remove(a, "lines") = Remove(b, "lines")
    /\ Len(a.lines) = Len(b.lines)
    /\ \A k \in 1..Len(a.lines) : SameLine(a.lines[k], b.lines[k])

\* C1 (as claimed): for every invoice validateInvoice finds valid, parsing
\* the generated document reproduces every field of the invoice: strings
\* and dates exactly, numeric fields equal to 2 decimals.
C1_RoundTrip ==
    (ParsedBack /\ changes = <<>>) =>
        /\ ~Has(parsed[1], "threw")
        /\ SameInvoice(source, parsed[1])

\* The element at the path is in the document parsed.
Present(path) == ~IsUndefined(NodeAt(xml[1], path))

StructuralErrors ==
    {[threw   |-> "Error",
      message |-> "Document XML invalide : balise CrossIndustryInvoice introuvable"],
     [threw   |-> "Error",
      message |-> "Structure Factur-X invalide : ExchangedDocument ou SupplyChainTradeTransaction manquant"]}

\* C17: a document without the CrossIndustryInvoice root, without the
\* ExchangedDocument section or without the SupplyChainTradeTransaction
\* section makes parseFacturXXml fail with a structural error; no invoice,
\* not even a partial one, is returned.
C17_StructuralError ==
    (/\ ParsedBack
     /\ \/ ~Present(<<"CrossIndustryInvoice">>)
        \/ ~Present(DocumentPath)
        \/ ~Present(TransactionPath)) =>
        parsed[1] \in StructuralErrors

\* A document whose transaction section was removed has been parsed, and
\* the structural error came out.
C17_Witness ==
    /\ ParsedBack
    /\ Present(DocumentPath)
    /\ ~Present(TransactionPath)
    /\ parsed[1] \in StructuralErrors

\* C18 (as claimed): a document that contains the ExchangedDocument and the
\* SupplyChainTradeTransaction sections parses to an invoice, whichever
\* other sections are missing; the parser does not fail.
C18_OnlyTwoSectionsRequired ==
    (/\ ParsedBack
     /\ TruthyNode(NodeAt(xml[1], DocumentPath))
     /\ TruthyNode(NodeAt(xml[1], TransactionPath))) =>
        ~Has(parsed[1], "threw")

RecognisedSubstrings == {"en16931", "extended", "basic", "basicwl", "minimum"}

\* The guideline identifier of the document parsed, '' when the identifier,
\* its parameter or the whole context section is absent.
GuidelineIdParsed == str(NodeAt(xml[1], GuidelineIdPath))

\* The document parsed is the generator's but for its context section.
OnlyContextChanged ==
    \A k \in 1..Len(changes) :
        /\ Len(changes[k]) >= Len(ContextPath)
        /\ SubSeq(changes[k], 1, Len(ContextPath)) = ContextPath

\* C19: when the guideline identifier contains none of the recognised
\* substrings, the identifier or the whole context section being absent
\* included, parseFacturXXml returns an invoice whose profile is EN_16931;
\* it does not fail.
C19_ProfileFallback ==
    (/\ ParsedBack
     /\ OnlyContextChanged
     /\ \A sub \in RecognisedSubstrings : ~Includes(GuidelineIdParsed, sub)) =>
        /\ ~Has(parsed[1], "threw")
        /\ parsed[1].profile = "EN_16931"

\* A document without its context section has been parsed to an invoice of
\* profile EN_16931, though it was generated for another profile.
C19_Witness ==
    /\ ParsedBack
    /\ changes = <<ContextPath>>
    /\ source.profile = "MINIMUM"
    /\ ~Has(parsed[1], "threw")
    /\ parsed[1].profile = "EN_16931"

\* C20 (as claimed): generateFacturX emits for each of the five profiles
\* its own URN of PROFILE_URNS, pairwise distinct, and for any other
\* profile value the EN_16931 URN; it does not fail.
C20_ProfileUrn ==
    /\ \A p, q \in FacturXProfiles :
           p # q => PROFILE_URNS[p] # PROFILE_URNS[q]
    /\ (xml # <<>> /\ changes = <<>>) =>
           /\ ~Has(xml[1], "threw")
           /\ str(NodeAt(xml[1], GuidelineIdPath)) =
                  IF source.profile \in FacturXProfiles
                  THEN PROFILE_URNS[source.profile]
                  ELSE PROFILE_URNS.EN_16931

(***************************************************************************)
(* Properties of the tool server (checked under SpecServer).               *)
(***************************************************************************)
GenerateCalls == {i \in 1..Len(requests) : requests[i].tool = "facturx_generate"}

\* validateInvoice ran in the call and did not return valid = true.
ValidationFailed(r) ==
    /\ r.validation # <<>>
    /\ Has(r.validation[1], "valid")
    /\ ~r.validation[1].valid

\* C15: in a facturx_generate call generateFacturX runs only after
\* validateInvoice returned valid = true for the same invoice; when the
\* validation reports an error the call returns an error result listing the
\* errors, produces no XML and does not touch the usage counter.
C15_ValidationGatesGeneration ==
    \A i \in GenerateCalls :
        LET r == requests[i]
        IN  /\ r.xml # <<>> =>
                /\ r.validation = <<validateInvoice(r.args)>>
                /\ Has(r.validation[1], "valid")
                /\ r.validation[1].valid
                /\ r.xml[1] = generateFacturX(r.args)
            /\ ValidationFailed(r) =>
                /\ r.pc = "done"
                /\ r.response[1].isError
                /\ r.response[1].errors = r.validation[1].errors
                /\ Len(r.response[1].errors) > 0
                /\ r.xml = <<>>
                /\ ~r.wrote

\* The free tier served one generation and refused another for its errors.
C15_Witness ==
    \E i, j \in GenerateCalls :
        /\ requests[i].pc = "done" /\ requests[i].wrote
        /\ ~requests[i].response[1].isError
        /\ ValidationFailed(requests[j])
        /\ requests[j].response # <<>>

\* The value a property with a default has after the defaults step.
AfterDefault(inv, f, value) ==
    IF Has(inv, f) /\ inv[f] # "" THEN inv[f] ELSE value

\* C16: on the generation path an absent typeCode becomes '380' and an
\* absent profile 'EN_16931' before validateInvoice runs, and nothing else of
\* the caller's invoice is changed, by the defaults or by any later step.
C16_OnlyDefaultsWritten ==
    \A i \in GenerateCalls :
        LET r == requests[i]
        IN  IF r.validation = <<>>
            THEN r.args = r.submitted
            ELSE /\ DOMAIN r.args = DOMAIN r.submitted \cup {"typeCode", "profile"}
                 /\ r.args.typeCode = AfterDefault(r.submitted, "typeCode", "380")
                 /\ r.args.profile = AfterDefault(r.submitted, "profile", "EN_16931")
                 /\ \A f \in DOMAIN r.submitted \ {"typeCode", "profile"} :
                       r.args[f] = r.submitted[f]
                 /\ r.validation = <<validateInvoice(r.args)>>

\* A call passed without typeCode and profile went through to its document.
C16_Witness ==
    \E i \in GenerateCalls :
        /\ ~Has(requests[i].submitted, "typeCode")
        /\ ~Has(requests[i].submitted, "profile")
        /\ requests[i].pc = "done"
        /\ requests[i].xml # <<>>
        /\ requests[i].args.typeCode = "380"
        /\ requests[i].args.profile = "EN_16931"

\* C21 (as claimed): without a valid license, the facturx_generate calls
\* that returned XML today never number more than FREE_DAILY_LIMIT, however
\* the steps of concurrently handled calls interleave.
C21_DailyLimit == ~license => generatedToday <= FREE_DAILY_LIMIT

FourFreeTools == FreeTools \cup OtherFreeTools

\* C22: while the license is not valid, every call to one of the five Pro
\* tools returns the upgrade error and the tool's action is never started;
\* a call to one of the four free tools is never answered by the upgrade
\* error.
C22_ProGating ==
    \A i \in 1..Len(requests) :
        LET r == requests[i]
        IN  /\ (~license /\ r.tool \in PRO_TOOLS) =>
                  /\ ~r.performed
                  /\ r.response \in {<<>>, <<UpgradeRequired(r.tool)>>}
            /\ r.tool \in FourFreeTools =>
                  /\ ~r.performed
                  /\ r.response # <<>> => r.response[1].kind # "upgrade"

\* Without a license a Chorus Pro call was refused and a free tool served.
C22_Witness ==
    /\ ~license
    /\ \E i, j \in 1..Len(requests) :
          /\ requests[i].tool = "chorus_submit"
          /\ requests[i].response = <<UpgradeRequired("chorus_submit")>>
          /\ requests[j].tool = "facturx_parse"
          /\ requests[j].response # <<>>
          /\ ~requests[j].response[1].isError

\* Call i has returned XML.
ReturnedXml(i) ==
    /\ requests[i].tool = "facturx_generate"
    /\ requests[i].response # <<>>
    /\ ~requests[i].response[1].isError

\* Call i opens usage.json in this step, and writes it.
Opens(i) == ~requests[i].opened /\ requests'[i].opened

Writes(i) == ~requests[i].wrote /\ requests'[i].wrote

\* Call i ended in one of the ways said to leave the counter as it is.
LeavesCounter(i) ==
    \/ license
    \/ requests[i].tool # "facturx_generate"
    \/ requests[i].response[1].kind \in {"quota", "invalid"}

\* C23: in a sequential run a free-tier facturx_generate call that returns
\* XML has rewritten the stored counter, found as it was read, to today's
\* count plus one, 1 when the stored date was not today; a call denied by
\* the quota, failing validation, to another tool or made with a valid
\* license has not touched the file, and no other step changes it.
C23_CounterSteps ==
    /\ [](\A i \in 1..Len(requests) :
             requests[i].pc = "done" =>
                 /\ LeavesCounter(i) => ~requests[i].opened /\ ~requests[i].wrote
                 /\ (ReturnedXml(i) /\ ~license) => requests[i].wrote)
    /\ [][\A i \in 1..Len(requests) :
             /\ Opens(i) => UsageData(usage) = requests[i].data[1]
             /\ Writes(i) =>
                   usage' = UsageFile(Today, UsedToday(requests[i].data[1]) + 1)]_vars
    /\ [][(\A i \in 1..Len(requests) : ~Opens(i) /\ ~Writes(i))
             => usage' = usage]_vars

\* The first generation of the day returned: the count of the day before
\* was read and 1 was written.
C23_Witness ==
    /\ AllReturned
    /\ usage = UsageFile(Today, 1)
    /\ \E i \in 1..Len(requests) :
          /\ requests[i].wrote
          /\ requests[i].data = <<[date |-> "2024-01-14", count |-> 10]>>
          /\ ~requests[i].response[1].isError

\* The verdict of the pre-flight check on the arguments of call i, and the
\* verdict of the generation gate on them.
PreflightValid(r) == r.validation[1].valid

\* C29 (as claimed): for the same arguments, facturx_validate reports the
\* invoice valid exactly when facturx_generate passes its validation step,
\* arguments without typeCode or profile included.
C29_PreflightAgrees ==
    \A i, j \in 1..Len(requests) :
        LET v == requests[i]
            g == requests[j]
        IN  (/\ v.tool = "facturx_validate"
             /\ g.tool = "facturx_generate"
             /\ v.submitted = g.submitted
             /\ v.validation # <<>>
             /\ g.validation # <<>>
             /\ ~Has(v.validation[1], "threw")
             /\ ~Has(g.validation[1], "threw")) =>
                v.validation[1].valid = PassesGate(g.validation[1])

RECURSIVE SumTaxableAmounts(_)
SumTaxableAmounts(summaries) ==
    IF summaries = <<>> THEN 0
    ELSE Head(summaries).taxableAmount + SumTaxableAmounts(Tail(summaries))

\* C30: in every result of calculateTotals the taxable amounts of the tax
\* summaries add up to the line total (cents): each line's rounded total is
\* counted in exactly one group.
C30_BasisAddsUp ==
    calls >= 1 =>
        SumTaxableAmounts(totals[1].vatSummaries) = totals[1].lineTotalAmount

\* Two lines of one group and none of another were totalled.
C30_Witness ==
    /\ calls >= 1
    /\ Len(invoice.lines) = 2
    /\ VatKey(invoice.lines[1]) = VatKey(invoice.lines[2])
    /\ Len(totals[1].vatSummaries) = 1
    /\ totals[1].vatSummaries[1].taxableAmount = totals[1].lineTotalAmount
    /\ totals[1].lineTotalAmount # 0

DateProperties == {"date", "dueDate", "deliveryDate"}

\* The element generateFacturX writes the date property to, which is the
\* element parseFacturXXml reads it from.
DatePath(f) ==
    IF f = "date"
    THEN DocumentPath \o <<"IssueDateTime", "DateTimeString">>
    ELSE IF f = "dueDate"
    THEN SettlementPath \o <<"SpecifiedTradePaymentTerms", "DueDateDateTime",
                             "DateTimeString">>
    ELSE DeliveryPath \o <<"ActualDeliverySupplyChainEvent",
                           "OccurrenceDateTime", "DateTimeString">>

\* C26 (as claimed): for every date d of the form YYYY-MM-DD that the
\* invoice carries, issue date, due date or delivery date, the text the
\* generator writes for it is the 8 digits of toDate8(d), and the parser,
\* reading the generated document, gives d back for that property.
C26_DateRoundTrip ==
    (ParsedBack /\ changes = <<>> /\ ~Has(parsed[1], "threw")) =>
        \A f \in DateProperties :
            (Has(source, f) /\ DATE_RE(source[f])) =>
                LET written == str(NodeAt(xml[1], DatePath(f)))
                IN  /\ written = toDate8(source[f])
                    /\ Len(written) = 8
                    /\ AllDigits(written)
                    /\ Has(parsed[1], f)
                    /\ parsed[1][f] = source[f]

(***************************************************************************)
(* Properties of ChorusClient.getToken (checked under SpecChorus).         *)
(***************************************************************************)
\* C24: every token getToken returns was issued to that same call, or is
\* the cached token returned with more than 10 seconds left before the
\* expiry recorded with it; and a call whose authentication request fails
\* throws and leaves the cached token and its expiry as they were.
C24_NoStaleToken ==
    /\ [](\A c \in 1..Len(tokenCalls) :
            tokenCalls[c].pc = "returned" =>
                LET r == tokenCalls[c]
                IN  /\ r.token \in 1..Len(grants)
                    /\ IF r.fetched
                       THEN grants[r.token].call = c
                       ELSE r.at + TOKEN_MARGIN < grants[r.token].expiry)
    /\ [][(\E c \in 1..Len(tokenCalls) :
              tokenCalls[c].pc = "fetching" /\ tokenCalls'[c].pc = "threw")
             => (accessToken' = accessToken /\ tokenExpiry' = tokenExpiry)]_vars

\* A token was served from the cache to one call, after time had passed,
\* and another call threw with the cache kept.
C24_Witness ==
    \E c, d \in 1..Len(tokenCalls) :
        /\ tokenCalls[c].pc = "returned"
        /\ ~tokenCalls[c].fetched
        /\ tokenCalls[c].at > 0
        /\ tokenCalls[c].token = accessToken
        /\ tokenCalls[d].pc = "threw"

(***************************************************************************)
(* Properties of validateLicenseKey (checked under SpecLicense).           *)
(***************************************************************************)
\* C27 (as claimed): the verdict of every call is the verdict of the key
\* passed at the time of the call, whatever key the calls before it were
\* made with.
C27_VerdictOfTheKey ==
    \A i \in 1..Len(verdicts) :
        verdicts[i].result.valid =
            ValidateKey(verdicts[i].key, verdicts[i].at).valid

\* C28 (as claimed): no call returns valid = true at a time later than the
\* expiresAt of the result, results served from the cache included; and
\* every result with valid = false has plan 'free' and an error message.
C28_NeverValidAfterExpiry ==
    \A i \in 1..Len(verdicts) :
        LET v == verdicts[i]
        IN  /\ v.result.valid => v.at <= v.result.expiresAt
            /\ ~v.result.valid =>
                  v.result.plan = "free" /\ Has(v.result, "error")

(***************************************************************************)
(* Properties of the webhook handler (checked under SpecWebhook).          *)
(***************************************************************************)
\* The request of hook h is a POST signed with the secret over its own id,
\* timestamp and body, its timestamp within 300 seconds of the clock at the
\* time the signature was checked.
Authentic(h) ==
    LET headers == h.req.headers
        ts      == parseInt(headers["webhook-timestamp"])
        signed  == Hmac(POLAR_WEBHOOK_SECRET,
                        ToSign(headers["webhook-id"],
                               headers["webhook-timestamp"], h.req.body))
    IN  /\ h.req.method = "POST"
        /\ \E k \in 1..Len(headers["webhook-signature"]) :
               headers["webhook-signature"][k].value = signed
        /\ ~IsNaN(ts)
        /\ ts.v >= h.verifiedAt - REPLAY_WINDOW
        /\ ts.v <= h.verifiedAt + REPLAY_WINDOW

\* The body of hook h is an event of a triggering type with an email.
Deliverable(h) ==
    /\ h.req.body.json
    /\ h.req.body.value["type"] \in TRIGGER_EVENTS
    /\ Has(h.req.body.value, "data")
    /\ EmailOf(h.req.body.value["data"]) # ""

\* C25: a key is generated and an email sent only for an authentic POST
\* carrying a triggering event with an email; a request answered 405, 401,
\* 400 or 200 skipped has no key and no email; and the body is parsed only
\* after the signature has been checked.
C25_KeyOnlyForVerifiedOrders ==
    \A i \in 1..Len(hooks) :
        LET h == hooks[i]
        IN  /\ (h.key # <<>> \/ h.emailed) => Authentic(h) /\ Deliverable(h)
            /\ (h.res.status \in {405, 401, 400} \/ h.res.body = "skipped")
                  => h.key = <<>> /\ ~h.emailed
            /\ \A j \in 1..Len(h.log) :
                   h.log[j] \in {"parse", "generate", "email"}
                      => \E k \in 1..(j - 1) : h.log[k] = "verify"

\* A key was emailed for a request whose timestamp was exactly 300 seconds
\* old when its signature was checked.
C25_Witness ==
    \E i \in 1..Len(hooks) :
        /\ hooks[i].emailed
        /\ hooks[i].res = Response(200, "success")
        /\ hooks[i].key # <<>>
        /\ hooks[i].verifiedAt = 1300
        /\ hooks[i].req.headers["webhook-timestamp"] = "1000"

====
